---- MODULE Spec2Model ----
(***************************************************************************)
(* A model of gagern/soundfontutils: the SF2 <-> YAML converter.          *)
(*                                                                         *)
(*   encoder  src/src/yamltosf2.js   (class YamlParse)                     *)
(*   decoder  src/unnamed/part_002   (class YamlGen, current version)      *)
(*   model    src/src/SF2.js         (RIFF, RecordLayout, Generator, SF2)  *)
(*                                                                         *)
(* The module holds several specifications, one per subsystem.  Each has   *)
(* its own group of variables; the groups of the other subsystems stay at  *)
(* their idle value.                                                       *)
(*                                                                         *)
(*   SpecQuad     table assembler quad() and the decoder's slicing getters *)
(*   SpecGap      sdta.yml written by YamlGen.sdta(), read by riff_sdta()  *)
(*   SpecSdta     segmentation of the sample buffer by YamlGen.sdta()      *)
(*   SpecZones    SF2._localZones: global zone and link resolution         *)
(*   SpecCompile  the promises of YamlParse.compile() and the main script  *)
(*   SpecRefs     references by name resolved by YamlParse                 *)
(*   SpecTerm     the terminator records through terminators.yml           *)
(*   SpecPos      sample offsets rebuilt by samples2()                     *)
(*   SpecNames    file names made by YamlGen.safeNames()                   *)
(*   SpecDecode   the files the YamlGen constructor writes                 *)
(*   SpecRiff     the RIFF container parser                                *)
(*   SpecRange    key and velocity ranges read by RecordLayout             *)
(*   SpecPair     stereo pairing in writeWavs() of mkjssf.js               *)
(*   SpecWrite    the write queue of YamlGen.writeFile()                   *)
(*   SpecWriteFair SpecWrite, every started write completing               *)
(*   SpecMemo     the getters of SF2 cached by _cachedRecord               *)
(*   SpecOrder    chunk order kept by riffDispatch() and riffList()        *)
(*   SpecGenName  generator names written and looked up again              *)
(*   SpecInfo     the INFO list through info() and riff_INFO()             *)
(***************************************************************************)
EXTENDS Integers, Sequences, FiniteSets, TLC

VARIABLES
  family,   \* "p" (presets) or "i" (instruments): which quad() call
  ydir,     \* the entity descriptors read from <dir>/<name>.yml, in hdr order
  tabs,     \* what quad() resolves to: the four record tables (or an error)
  sf,       \* what the decoder's getters give for those tables
  qpc,      \* position of the assemble / slice run
  route,    \* "sf2": sdta.yml comes from the decoder; "yaml": it is given
  gseq,     \* the decoder's segment sequence (name, start, end, next start)
  gsm24,    \* whether the decoded file has an sm24 chunk
  sdtaYml,  \* sdta.yml: names and {gap: n} markers, each name with what
            \* samples/<name>.yml and wav/<name>.wav hold for it
  enc,      \* what riff_sdta() resolves to: the buffers of the sdta chunk
  gpc,      \* position of the sample sequence run
  shdr,     \* the sample header rows of the decoded file (terminator popped)
  smpl,     \* the smpl chunk, one 16 bit value per sample point
  sm24,     \* the sm24 chunk when present, one byte per sample point
  zlocal,   \* "instrument" or "sampleID": the terminal generator of a zone
  zbag,     \* the zone objects of one entity, as SF2.pbag / SF2.ibag give them
  zlink,    \* the table the terminal generator points into (terminator popped)
  zres,     \* what _localZones returns, or the error it throws
  zpc,      \* position of the zone linking run
  io,       \* the file reads of compile(): idle, pending, ok or fail
  prom,     \* the promises of compile(): pending, fulfilled or rejected (why)
  metas,    \* samples/<name>.yml of each name in sdta.yml
  wavs,     \* wav/<name>.wav of each name in sdta.yml
  outfile,  \* the writeFile of the output: idle, pending, ok or fail
  status,   \* the exit status of the encoder and what console.error got
  rfam,     \* "p" or "i": the quad() call whose generators are resolved
  rgens,    \* the gens of a zone of a descriptor, references by name
  rsmps,    \* the sample descriptors samples2() reads, in shdr.yml order
  rout,     \* the rows quad() and samples2() hand to RecordLayout.write
  rpc,      \* position of the reference resolution run
  ytxt,     \* the descriptors YamlGen.preset() / instrument() produce, by entity
  tfile,    \* the last rows of the seven tables of the decoded file
  tyml,     \* term.yml as terminators() returns it
  tenc,     \* the last rows of the tables the encoder writes
  tpc,      \* position of the terminator cycle
  pyml,     \* sdta.yml: sample names and gap markers
  pshdr,    \* shdr.yml: the names of the sample headers, in table order
  pmeta,    \* the memoized sample descriptors, by name
  penc,     \* what riff_sdta() resolved to
  pprom,    \* the promises samples2() waits for
  prows,    \* the rows samples2() hands to RecordLayout.shdr.write
  names0,   \* the names of a table's rows, each a sequence of characters
  fnames,   \* the file names safeNames() returned
  npc,      \* position of the naming run
  dfile,    \* what the decoder finds in the binary: tables, INFO chunk, sample headers
  dcalls,   \* the files writeFile() was called for, in call order
  wstarted, \* the files fs.writeFile() was called for, in call order
  writing,  \* this.writing: the writes in flight
  writeQueue,\* this.writeQueue: the files waiting for a free slot
  dstatus,  \* "idle", "read", "converted" or "failed"
  rbuf,     \* the bytes handed to new RIFF(buf)
  rres,     \* the chunks the constructor listed, or the error it threw
  rfpc,     \* position of the container parse
  gcell,    \* a generator row of the file: operator and the two amount bytes
  gdec,     \* the decoded generator: its value and the value's text
  gdpc,     \* position of the generator decode
  wshdr,    \* sf2.shdr: the sample headers
  winsts,   \* sf2.inst: the local zones of each instrument
  wlog,     \* the warnings logged, by instrument
  wfiles,   \* the wave files written
  wstatus,  \* "idle", "sf2", "done" or "threw"
  werr,     \* the instrument at which writeWavs threw, and the error
  mside,    \* "idle", "decode" (an SF2 object) or "encode" (a YamlParse object)
  mfile,    \* what the tables of the file or the descriptors hold
  memo,     \* the cache fields, and what was computed and returned so far
  macc,     \* the number of getter accesses made
  odesc,    \* RIFF.yml: the items of the sfbk list, chunk names and lists
  ores,     \* the buffers each chunk handler's promise resolved to, by position
  oorder,   \* the positions of the chunk handlers in the order they completed
  oout,     \* what compile() resolved to: the bytes of the file
  opc,      \* "idle", "pending" or "done"
  gop,      \* sfGenOper of a generator row of the binary
  gname,    \* the key the decoder writes for the generator
  gback,    \* what quad() makes of the key: the operator code, or the error
  gnpc,     \* "idle", "row", "yaml" or "quad"
  ichunks,  \* the sub-chunks of the INFO list of the binary: id and payload
  iyml,     \* RIFF.yml's INFO keys and the object INFO.yml holds
  ienc,     \* the sub-chunks riff_INFO() writes, or the error
  ipc       \* "idle", "sf2", "yaml" or "encoded"

quadVars == <<family, ydir, tabs, sf, qpc>>

gapVars == <<route, gseq, gsm24, sdtaYml, enc, gpc>>

bufVars == <<shdr, smpl, sm24>>

zoneVars == <<zlocal, zbag, zlink, zres, zpc>>

compVars == <<io, prom, metas, wavs, outfile, status>>

refVars == <<rfam, rgens, rsmps, rout, rpc>>

descVars == <<ytxt>>

termVars == <<tfile, tyml, tenc, tpc>>

posVars == <<pyml, pshdr, pmeta, penc, pprom, prows>>

nameVars == <<names0, fnames, npc>>

decVars == <<dfile, dcalls, wstarted, writing, writeQueue, dstatus>>

riffVars == <<rbuf, rres, rfpc>>

rangeVars == <<gcell, gdec, gdpc>>

pairVars == <<wshdr, winsts, wlog, wfiles, wstatus, werr>>

memoVars == <<mside, mfile, memo, macc>>

orderVars == <<odesc, ores, oorder, oout, opc>>

genVars == <<gop, gname, gback, gnpc>>

infoVars == <<ichunks, iyml, ienc, ipc>>

vars == <<family, ydir, tabs, sf, qpc, route, gseq, gsm24, sdtaYml, enc, gpc,
          shdr, smpl, sm24, zlocal, zbag, zlink, zres, zpc,
          io, prom, metas, wavs, outfile, status,
          rfam, rgens, rsmps, rout, rpc,
          ytxt,
          tfile, tyml, tenc, tpc,
          pyml, pshdr, pmeta, penc, pprom, prows,
          names0, fnames, npc,
          dfile, dcalls, wstarted, writing, writeQueue, dstatus,
          rbuf, rres, rfpc,
          gcell, gdec, gdpc,
          wshdr, winsts, wlog, wfiles, wstatus, werr,
          mside, mfile, memo, macc,
          odesc, ores, oorder, oout, opc,
          gop, gname, gback, gnpc,
          ichunks, iyml, ienc, ipc>>

(***************************************************************************)
(* Bounds of the model.                                                    *)
(***************************************************************************)
\* Longest build script of an entity list (one symbol per entity, zone,
\* generator or modifier), see Scripts.
MaxScript == 7

\* Most segments of a decoded sample sequence, most items of a given sdta.yml.
MaxSegs == 4
MaxList == 5

\* Longest smpl chunk in sample points, most sample header rows.
MaxBuf == 2
MaxHdr == 2

\* Most generators of the zone whose references are resolved.
MaxRefGens == 3

\* Most zones of an entity, most rows of the table its zones point into.
MaxZones == 3
MaxLink == 2

(***************************************************************************)
(* Values shared by all parts.                                             *)
(***************************************************************************)
\* JavaScript's undefined, where the code can produce it in a number's place.
Undefined == 0 - 1000000

Min(a, b) == IF a < b THEN a ELSE b

\* Array.prototype.slice(a, b) for a, b >= 0 or undefined: rows a .. b-1,
\* clipped; an undefined start is 0, an undefined end is the length.
JsSlice(s, a, b) ==
  LET lo == IF a = Undefined THEN 0 ELSE Min(a, Len(s))
      hi == IF b = Undefined THEN Len(s) ELSE Min(b, Len(s))
  IN  IF hi <= lo THEN <<>> ELSE SubSeq(s, lo + 1, hi)

\* Array.prototype.indexOf, 0-based, -1 when absent.
RECURSIVE IndexFrom(_, _, _)
IndexFrom(s, x, n) ==
  IF n > Len(s) THEN 0 - 1
  ELSE IF s[n] = x THEN n - 1
  ELSE IndexFrom(s, x, n + 1)

IndexOf(s, x) == IndexFrom(s, x, 1)

(***************************************************************************)
(* SF2.js: generators.                                                     *)
(***************************************************************************)
GeneratorNames == <<
  "startAddrsOffset", "endAddrsOffset", "startloopAddrsOffset",
  "endloopAddrsOffset", "startAddrsCoarseOffset", "modLfoToPitch",
  "vibLfoToPitch", "modEnvToPitch", "initialFilterFc", "initialFilterQ",
  "modLfoToFilterFc", "modEnvToFilterFc", "endAddrsCoarseOffset",
  "modLfoToVolume", "unused1", "chorusEffectsSend", "reverbEffectsSend",
  "pan", "unused2", "unused3", "unused4", "delayModLFO", "freqModLFO",
  "delayVibLFO", "freqVibLFO", "delayModEnv", "attackModEnv", "holdModEnv",
  "decayModEnv", "sustainModEnv", "releaseModEnv", "keynumToModEnvHold",
  "keynumToModEnvDecay", "delayVolEnv", "attackVolEnv", "holdVolEnv",
  "decayVolEnv", "sustainVolEnv", "releaseVolEnv", "keynumToVolEnvHold",
  "keynumToVolEnvDecay", "instrument", "reserved1", "keyRange", "velRange",
  "startloopAddrsCoarseOffset", "keynum", "velocity", "initialAttenuation",
  "reserved2", "endloopAddrsCoarseOffset", "coarseTune", "fineTune",
  "sampleID", "sampleModes", "reserved3", "scaleTuning", "exclusiveClass",
  "overridingRootKey", "unused5", "endOper" >>

\* Generator.prototype.name
GeneratorName(op) ==
  IF op + 1 \in DOMAIN GeneratorNames THEN GeneratorNames[op + 1]
  ELSE ToString(op)

\* Generator.prototype.kind
GeneratorKind(op) ==
  IF op \in {41, 53} THEN "index"
  ELSE IF op \in {43, 44} THEN "range"
  ELSE IF op \in {46, 47} THEN "substitution"
  ELSE IF op \in {0, 1, 2, 3, 4, 12, 45, 50, 54, 58, 57} THEN "sample"
  ELSE "value"

\* readInt8 / readInt16LE of an unsigned byte / 16-bit cell.
I8(b) == IF b >= 128 THEN b - 256 ELSE b
I16(w) == IF w >= 32768 THEN w - 65536 ELSE w

\* RecordLayout.prototype.a2: the 16-bit amount cell read three ways.
A2(w) ==
  [ ranges   |-> [byLo |-> I8(w % 256), byHi |-> I8(w \div 256)],
    shAmount |-> I16(w),
    wAmount  |-> w ]

\* Generator.prototype.value
GeneratorValue(g) ==
  IF GeneratorKind(g.sfGenOper) = "range" THEN g.genAmount.ranges
  ELSE IF GeneratorKind(g.sfGenOper) = "index" THEN g.genAmount.wAmount
  ELSE g.genAmount.shAmount

(***************************************************************************)
(* SF2.js: record layouts.  SF2.js defines RecordLayout.prototype.parse     *)
(* but not the write() that quad() calls; WriteParse is "write, then       *)
(* parse" as the codec is specified: the fields of the layout, in order,   *)
(* at their widths, each row carrying its position.                        *)
(***************************************************************************)
LayoutNames(table) ==
  CASE table = "phdr" -> <<"achPresetName", "wPreset", "wBank", "wPresetBagNdx",
                           "dwLibrary", "dwGenre", "dwMorphology">>
    [] table = "pbag" -> <<"wGenNdx", "wModNdx">>
    [] table \in {"pmod", "imod"} ->
         <<"sfModSrcOper", "sfModDestOper", "modAmount", "sfModAmtSrcOper",
           "sfModTransOper">>
    [] table \in {"pgen", "igen"} -> <<"sfGenOper", "genAmount">>
    [] table = "inst" -> <<"achInstName", "wInstBagNdx">>
    [] table = "ibag" -> <<"wInstGenNdx", "wInstModNdx">>
    [] table = "shdr" ->
         <<"achSampleName", "dwStart", "dwEnd", "dwStartloop", "dwEndloop",
           "dwSamplerRate", "byOriginalPitch", "chPitchCorrection",
           "wSampleLink", "sfSampleType">>

\* One field through the codec: u1 / u2 cells wrap at their width, i1 and i2
\* cells are read back signed, the amount cell is read back by a2, u4 cells
\* hold every value used here; a field the row does not have stays undefined.
FieldCodec(name, rec) ==
  IF name \notin DOMAIN rec THEN Undefined
  ELSE IF name \in {"achPresetName", "achInstName", "achSampleName"}
  THEN rec[name]
  ELSE IF rec[name] = Undefined THEN Undefined
  ELSE IF name = "genAmount" THEN A2(rec[name] % 65536)
  ELSE IF name = "modAmount" THEN I16(rec[name] % 65536)
  ELSE IF name = "byOriginalPitch" THEN rec[name] % 256
  ELSE IF name = "chPitchCorrection" THEN I8(rec[name] % 256)
  ELSE IF name \in {"dwLibrary", "dwGenre", "dwMorphology", "dwStart", "dwEnd",
                    "dwStartloop", "dwEndloop", "dwSamplerRate"}
  THEN rec[name]
  ELSE rec[name] % 65536

RowNames(table) == {LayoutNames(table)[k] : k \in DOMAIN LayoutNames(table)}

WriteParse(table, rows) ==
  [ i \in 1..Len(rows) |->
      [n \in RowNames(table) \cup {"id"} |->
         IF n = "id" THEN i - 1 ELSE FieldCodec(n, rows[i])] ]

(***************************************************************************)
(* yamltosf2.js: the table assembler quad().                               *)
(***************************************************************************)
\* The arguments of the two calls of quad(), in presets() and instruments().
QuadArgs(fam) ==
  IF fam = "p"
  THEN [letter |-> "p", hdrName |-> "phdr", ndx1 |-> "Preset", ndx2 |-> ""]
  ELSE [letter |-> "i", hdrName |-> "inst", ndx1 |-> "Inst", ndx2 |-> "Inst"]

\* A zone of a descriptor: `gens` and `mods` are optional.
NoZone == [hasGens |-> FALSE, gens |-> <<>>, hasMods |-> FALSE, mods |-> <<>>]

\* QuadHdrLoop with the bag-start index taken after the global zone was
\* pushed instead of before.
RECURSIVE QuadHdrLoopLate(_, _, _, _, _)
QuadHdrLoopLate(ndx1, lst, n, hdr, bag) ==
  IF n > Len(lst) THEN [hdr |-> hdr, bag |-> bag]
  ELSE LET i    == lst[n]
           bag1 == IF i.hasGlobal THEN Append(bag, i.global) ELSE bag
           row  == (("w" \o ndx1 \o "BagNdx") :> Len(bag1)) @@ i
       IN  QuadHdrLoopLate(ndx1, lst, n + 1, Append(hdr, row), bag1 \o i.zones)

\* The rows a descriptor contributes to the bag array: global first.
\* for (let i of hdr) { i[w<ndx1>BagNdx] = bag.length; push global, zones }
RECURSIVE QuadHdrLoop(_, _, _, _, _)
QuadHdrLoop(ndx1, lst, n, hdr, bag) ==
  IF n > Len(lst) THEN [hdr |-> hdr, bag |-> bag]
  ELSE LET i    == lst[n]
           row  == (("w" \o ndx1 \o "BagNdx") :> Len(bag)) @@ i
           bag1 == IF i.hasGlobal THEN Append(bag, i.global) ELSE bag
       IN  QuadHdrLoop(ndx1, lst, n + 1, Append(hdr, row), bag1 \o i.zones)

\* QuadBagLoop with the start indices of a bag row taken after its own
\* generators and modifiers were pushed instead of before.
RECURSIVE QuadBagLoopLate(_, _, _, _, _, _)
QuadBagLoopLate(ndx2, zs, n, bag, mod, gen) ==
  IF n > Len(zs) THEN [bag |-> bag, mod |-> mod, gen |-> gen]
  ELSE LET i    == zs[n]
           mod1 == IF i.hasMods THEN mod \o i.mods ELSE mod
           gen1 == IF i.hasGens THEN gen \o i.gens ELSE gen
           row  == (("w" \o ndx2 \o "GenNdx") :> Len(gen1)) @@
                   (("w" \o ndx2 \o "ModNdx") :> Len(mod1)) @@ i
       IN  QuadBagLoopLate(ndx2, zs, n + 1, Append(bag, row), mod1, gen1)

\* for (let i of bag) { i[w<ndx2>GenNdx] = gen.length; ...; push gens, mods }
RECURSIVE QuadBagLoop(_, _, _, _, _, _)
QuadBagLoop(ndx2, zs, n, bag, mod, gen) ==
  IF n > Len(zs) THEN [bag |-> bag, mod |-> mod, gen |-> gen]
  ELSE LET i   == zs[n]
           row == (("w" \o ndx2 \o "GenNdx") :> Len(gen)) @@
                  (("w" \o ndx2 \o "ModNdx") :> Len(mod)) @@ i
       IN  QuadBagLoop(ndx2, zs, n + 1, Append(bag, row),
                       IF i.hasMods THEN mod \o i.mods ELSE mod,
                       IF i.hasGens THEN gen \o i.gens ELSE gen)

\* Map.prototype.get on the name -> index dictionary of a name list.
DictGet(names, v) ==
  IF \E k \in DOMAIN names : names[k] = v
  THEN (CHOOSE k \in DOMAIN names :
          names[k] = v /\ \A j \in DOMAIN names : names[j] = v => j <= k) - 1
  ELSE Undefined

\* gen.map(g => ...): a {name: amount} pair becomes a generator row; the
\* instrument / sampleID amounts are names, looked up in the dictionary of
\* the referenced table.  A row of op < 0 stands for the thrown error.
QuadGenRow(g, instDict, smplDict) ==
  LET op == IndexOf(GeneratorNames, g.k)
  IN  [ sfGenOper |-> op,
        genAmount |-> IF g.k = "instrument" THEN DictGet(instDict, g.v)
                      ELSE IF g.k = "sampleID" THEN DictGet(smplDict, g.v)
                      ELSE g.v ]

\* quad() up to the calls of RecordLayout.write: the four arrays it hands
\* to the writer, terminators appended.
QuadRows(fam, lst, term, instDict, smplDict) ==
  LET a    == QuadArgs(fam)
      l1   == QuadHdrLoop(a.ndx1, lst, 1, <<>>, <<>>)
      hdr  == Append(l1.hdr,
                     term[a.hdrName] @@
                     (("w" \o a.ndx1 \o "BagNdx") :> Len(l1.bag)))
      l2   == QuadBagLoop(a.ndx2, l1.bag, 1, <<>>, <<>>, <<>>)
      bag  == Append(l2.bag,
                     (("w" \o a.ndx2 \o "GenNdx") :> Len(l2.gen)) @@
                     (("w" \o a.ndx2 \o "ModNdx") :> Len(l2.mod)))
      gen0 == [k \in 1..Len(l2.gen) |-> QuadGenRow(l2.gen[k], instDict, smplDict)]
      gen  == Append(gen0, term[a.letter \o "gen"])
      mod  == Append(l2.mod, term[a.letter \o "mod"])
  IN  IF \E k \in 1..Len(gen0) : gen0[k].sfGenOper < 0
      THEN [err |-> "Invalid generator"]
      ELSE [err |-> "none", hdr |-> hdr, bag |-> bag, mod |-> mod, gen |-> gen]

Quad(fam, lst, term, instDict, smplDict) ==
  LET a == QuadArgs(fam)
      r == QuadRows(fam, lst, term, instDict, smplDict)
  IN  IF r.err # "none" THEN [err |-> r.err]
      ELSE [ err |-> "none",
             hdr |-> WriteParse(a.hdrName, r.hdr),
             bag |-> WriteParse(a.letter \o "bag", r.bag),
             mod |-> WriteParse(a.letter \o "mod", r.mod),
             gen |-> WriteParse(a.letter \o "gen", r.gen) ]

\* samples2() up to RecordLayout.shdr.write: each descriptor with its
\* offsets made absolute by the position sdta16() gave it and a link name
\* looked up in the dictionary of shdr.yml, then the terminator row.
Samples2Rows(lst, names, termShdr) ==
  [k \in 1..Len(lst) |->
     [ dwStart |-> lst[k].pos,
       dwEnd |-> lst[k].pos + lst[k].dwEnd,
       dwStartloop |-> lst[k].pos + lst[k].dwStartloop,
       dwEndloop |-> lst[k].pos + lst[k].dwEndloop,
       wSampleLink |-> IF lst[k].linkIsName
                       THEN DictGet(names, lst[k].wSampleLink)
                       ELSE lst[k].wSampleLink ] @@ lst[k]]
  \o <<termShdr>>

(***************************************************************************)
(* SF2.js: the decoder's table getters and _localZones.                    *)
(***************************************************************************)
\* zones.map(z => { gens, mods, [g.name]: g.value for g of z.gens }): the
\* generator properties of a zone object; a later generator of the same
\* name overwrites an earlier one.
RECURSIVE ZoneProps(_, _, _)
ZoneProps(gens, n, acc) ==
  IF n > Len(gens) THEN acc
  ELSE ZoneProps(gens, n + 1,
         (GeneratorName(gens[n].sfGenOper) :> GeneratorValue(gens[n])) @@ acc)

ZoneObject(z) ==
  [gens |-> z.gens, mods |-> z.mods, props |-> ZoneProps(z.gens, 1, <<>>)]

\* Inheritance in which the global zone's value wins over the zone's own.
InheritGlobalFirst(z, global) == [z EXCEPT !.props = global.props @@ z.props]

\* for (let name in global) if (!z.hasOwnProperty(name)) z[name] = global[name]
\* (gens and mods are own properties of every zone object)
Inherit(z, global) == [z EXCEPT !.props = z.props @@ global.props]

\* A link loop that drops every zone without the terminal generator.
RECURSIVE LinkLoopSkipGlobal(_, _, _, _, _)
LinkLoopSkipGlobal(zones, local, link, n, out) ==
  IF n > Len(zones) THEN [err |-> "none", zones |-> out]
  ELSE IF local \notin DOMAIN zones[n].props
  THEN LinkLoopSkipGlobal(zones, local, link, n + 1, out)
  ELSE IF zones[n].props[local] + 1 \notin DOMAIN link
  THEN [err |-> "Failed to link", zones |-> <<>>]
  ELSE LinkLoopSkipGlobal(zones, local, link, n + 1,
         Append(out, [zones[n] EXCEPT
                        !.props = (local :> link[zones[n].props[local] + 1]) @@ @]))

\* A link loop over a table that still holds its terminator row.
RECURSIVE LinkLoopWithTerminator(_, _, _, _, _)
LinkLoopWithTerminator(zones, local, link, n, out) ==
  LET full == Append(link, [id |-> Len(link)])
  IN  IF n > Len(zones) THEN [err |-> "none", zones |-> out]
      ELSE IF local \notin DOMAIN zones[n].props
      THEN [err |-> "Unexpected global zone", zones |-> <<>>]
      ELSE IF zones[n].props[local] + 1 \notin DOMAIN full
      THEN [err |-> "Failed to link", zones |-> <<>>]
      ELSE LinkLoopWithTerminator(zones, local, link, n + 1,
             Append(out, [zones[n] EXCEPT
                            !.props = (local :> full[zones[n].props[local] + 1]) @@ @]))

\* for (let z of zones) { id = z[local]; throw ...; z[local] = link[id] }
RECURSIVE LinkLoop(_, _, _, _, _)
LinkLoop(zones, local, link, n, out) ==
  IF n > Len(zones) THEN [err |-> "none", zones |-> out]
  ELSE IF local \notin DOMAIN zones[n].props
  THEN [err |-> "Unexpected global zone", zones |-> <<>>]
  ELSE IF zones[n].props[local] + 1 \notin DOMAIN link
  THEN [err |-> "Failed to link", zones |-> <<>>]
  ELSE LinkLoop(zones, local, link, n + 1,
         Append(out, [zones[n] EXCEPT
                        !.props = (local :> link[zones[n].props[local] + 1]) @@ @]))

\* if (!zones[0].hasOwnProperty(local)) { global = zones.shift(); inherit }
HasGlobal(objs, local) == Len(objs) > 0 /\ local \notin DOMAIN objs[1].props

LocalZones(zones, local, link) ==
  IF Len(zones) = 0 THEN [err |-> "none", zones |-> <<>>]
  ELSE LET objs == [k \in 1..Len(zones) |-> ZoneObject(zones[k])]
           rest == IF HasGlobal(objs, local)
                   THEN [k \in 1..Len(objs) - 1 |-> Inherit(objs[k + 1], objs[1])]
                   ELSE objs
       IN  LinkLoop(rest, local, link, 1, <<>>)

\* Generator.build: a Generator keeps sfGenOper and genAmount of its row.
GeneratorBuild(rows) ==
  [k \in 1..Len(rows) |->
     [sfGenOper |-> rows[k].sfGenOper, genAmount |-> rows[k].genAmount]]

\* The index fields the getters read, by family.
NdxFields(fam) ==
  IF fam = "p"
  THEN [bag |-> "wPresetBagNdx", gen |-> "wGenNdx", mod |-> "wModNdx",
        local |-> "instrument"]
  ELSE [bag |-> "wInstBagNdx", gen |-> "wInstGenNdx", mod |-> "wInstModNdx",
        local |-> "sampleID"]

\* get pbag / get ibag: _cachedRecord with the pairwise slicing of the
\* generator and modifier tables (which keep their terminator row); the
\* terminator bag row is popped.
SF2Bag(fam, t) ==
  LET f   == NdxFields(fam)
      gen == GeneratorBuild(t.gen)
  IN  [k \in 1..Len(t.bag) - 1 |->
         [ gens |-> JsSlice(gen, t.bag[k][f.gen], t.bag[k + 1][f.gen]),
           mods |-> JsSlice(t.mod, t.bag[k][f.mod], t.bag[k + 1][f.mod]) ]
         @@ t.bag[k] ]

\* cur.zones = pbag.slice(cur.w<..>BagNdx, next.w<..>BagNdx)
SF2Zones(fam, t, k) ==
  JsSlice(SF2Bag(fam, t), t.hdr[k][NdxFields(fam).bag],
          t.hdr[k + 1][NdxFields(fam).bag])

\* get phdr / get inst: pairwise zones and localZones; the first entity
\* whose _localZones throws makes the getter throw.
SF2Hdr(fam, t, link) ==
  LET n    == Len(t.hdr) - 1
      lz   == [k \in 1..n |-> LocalZones(SF2Zones(fam, t, k),
                                         NdxFields(fam).local, link)]
      bad  == {k \in 1..n : lz[k].err # "none"}
  IN  IF bad # {}
      THEN [err |-> lz[CHOOSE k \in bad : \A j \in bad : k <= j].err,
            rows |-> <<>>]
      ELSE [err |-> "none",
            rows |-> [k \in 1..n |->
                        [ zones      |-> SF2Zones(fam, t, k),
                          localZones |-> lz[k].zones ] @@ t.hdr[k] ]]

(***************************************************************************)
(* sf2toyaml: the descriptors YamlGen writes for presets and instruments.  *)
(***************************************************************************)
\* g => { let v = g.value; Range -> String(v); terminal reference ->
\* this.instruments[v] / this.samples[v]; return {[g.name]: v} }
GenText(g, local, names) ==
  LET v == GeneratorValue(g)
  IN  [k |-> GeneratorName(g.sfGenOper),
       v |-> IF GeneratorKind(g.sfGenOper) = "range"
             THEN ToString(v.byLo) \o "-" \o ToString(v.byHi)
             ELSE IF GeneratorName(g.sfGenOper) = local
             THEN (IF v + 1 \in DOMAIN names THEN names[v + 1] ELSE Undefined)
             ELSE v]

\* z => { r = {}; if (z.gens.length) r.gens = ...; if (z.mods.length)
\* r.mods = z.mods; return r }
ZoneText(z, local, names) ==
  [ hasGens |-> Len(z.gens) > 0,
    gens    |-> [i \in 1..Len(z.gens) |-> GenText(z.gens[i], local, names)],
    hasMods |-> Len(z.mods) > 0,
    mods    |-> z.mods ]

\* res.zones[0].gens[res.zones[0].gens.length - 1].instrument, as a boolean:
\* the last generator is the terminal reference and its name is a non-empty
\* string.
LastIsRef(z, local, names) ==
  LET g == z.gens[Len(z.gens)]
  IN  /\ GeneratorName(g.sfGenOper) = local
      /\ GeneratorValue(g) + 1 \in DOMAIN names
      /\ names[GeneratorValue(g) + 1] # ""

\* YamlGen.preset(p)
YamlGenPreset(p, names) ==
  LET zs == [k \in 1..Len(p.zones) |-> ZoneText(p.zones[k], "instrument", names)]
      g  == /\ Len(zs) > 0
            /\ zs[1].hasGens
            /\ Len(zs[1].gens) > 0
            /\ ~LastIsRef(p.zones[1], "instrument", names)
  IN  [ hasGlobal |-> g,
        global    |-> IF g THEN zs[1] ELSE NoZone,
        zones     |-> IF g THEN Tail(zs) ELSE zs ]
      @@ [n \in RowNames("phdr") \ {"wPresetBagNdx"} |-> p[n]]

\* YamlGen.instrument(i): the extraction of the global zone is guarded by
\* "false &&".
YamlGenInstrument(i, names) ==
  LET zs == [k \in 1..Len(i.zones) |-> ZoneText(i.zones[k], "sampleID", names)]
      g  == /\ FALSE
            /\ Len(zs) > 0
            /\ Len(zs[1].gens) > 0
            /\ ~LastIsRef(i.zones[1], "sampleID", names)
  IN  [ hasGlobal |-> g,
        global    |-> IF g THEN zs[1] ELSE NoZone,
        zones     |-> IF g THEN Tail(zs) ELSE zs ]
      @@ [n \in RowNames("inst") \ {"wInstBagNdx"} |-> i[n]]

(***************************************************************************)
(* SpecQuad: an entity list is assembled by quad() and the tables are      *)
(* read back by the decoder's getters.                                     *)
(*                                                                         *)
(* The entity lists are those a build script of at most MaxScript symbols  *)
(* describes: E a new entity, G its global zone, Z a new local zone, e the *)
(* current zone's gens and mods present but empty, g a plain generator, r  *)
(* a terminal reference generator, m a modifier.  The symbol's position in *)
(* the script labels the generator or modifier, so rows differ.            *)
(***************************************************************************)
Alphabet == {"E", "G", "Z", "e", "g", "r", "m"}

ScriptOk(s, c) ==
  \/ c = "E"
  \/ /\ Len(s) > 0
     /\ \/ c = "Z"
        \/ c = "G" /\ s[Len(s)] = "E"
        \/ c = "e" /\ s[Len(s)] \in {"G", "Z"}
        \/ c \in {"g", "r"} /\ s[Len(s)] \in {"G", "Z", "g", "r"}
        \/ c = "m" /\ s[Len(s)] \in {"G", "Z", "g", "r", "m"}

RECURSIVE Scripts(_)
Scripts(n) ==
  IF n = 0 THEN {<<>>}
  ELSE LET P == Scripts(n - 1)
       IN  P \cup { Append(x[1], x[2]) :
                    x \in { y \in P \X Alphabet :
                            Len(y[1]) = n - 1 /\ ScriptOk(y[1], y[2]) } }

\* The names of the referenced table (inst.yml for presets, shdr.yml for
\* instruments), and the rows the decoder links to.
RefNames == <<"ra", "rb">>

LinkRows == [k \in 1..Len(RefNames) |-> [id |-> k - 1, name |-> RefNames[k]]]

NewEntity(fam, i) ==
  IF fam = "p"
  THEN [ achPresetName |-> "p" \o ToString(i), wPreset |-> i - 1, wBank |-> 0,
         dwLibrary |-> 0, dwGenre |-> 0, dwMorphology |-> 0,
         hasGlobal |-> FALSE, global |-> NoZone, zones |-> <<>> ]
  ELSE [ achInstName |-> "i" \o ToString(i),
         hasGlobal |-> FALSE, global |-> NoZone, zones |-> <<>> ]

NewGen(fam, c, n) ==
  IF c = "r"
  THEN [k |-> NdxFields(fam).local, v |-> RefNames[(n % Len(RefNames)) + 1]]
  ELSE [k |-> IF n % 2 = 0 THEN "pan" ELSE "fineTune", v |-> n]

NewMod(n) ==
  [ sfModSrcOper |-> n, sfModDestOper |-> 0, modAmount |-> 0 - n,
    sfModAmtSrcOper |-> 0, sfModTransOper |-> 0 ]

CurZone(e) == IF Len(e.zones) > 0 THEN e.zones[Len(e.zones)] ELSE e.global

SetCurZone(e, z) ==
  IF Len(e.zones) > 0 THEN [e EXCEPT !.zones[Len(e.zones)] = z]
  ELSE [e EXCEPT !.global = z]

BuildStep(fam, ents, c, n) ==
  IF c = "E" THEN Append(ents, NewEntity(fam, Len(ents) + 1))
  ELSE LET e == ents[Len(ents)]
           z == CurZone(e)
           e2 == CASE c = "G" -> [e EXCEPT !.hasGlobal = TRUE]
                   [] c = "Z" -> [e EXCEPT !.zones = Append(@, NoZone)]
                   [] c = "e" -> SetCurZone(e, [z EXCEPT !.hasGens = TRUE,
                                                         !.hasMods = TRUE])
                   [] c \in {"g", "r"} ->
                        SetCurZone(e, [z EXCEPT !.hasGens = TRUE,
                                         !.gens = Append(@, NewGen(fam, c, n))])
                   [] c = "m" ->
                        SetCurZone(e, [z EXCEPT !.hasMods = TRUE,
                                         !.mods = Append(@, NewMod(n))])
       IN  [ents EXCEPT ![Len(ents)] = e2]

RECURSIVE Build(_, _, _, _)
Build(fam, s, n, ents) ==
  IF n > Len(s) THEN ents
  ELSE Build(fam, s, n + 1, BuildStep(fam, ents, s[n], n))

\* term.yml as the decoder's terminators() writes it: the terminator rows
\* without their index fields.
Terminators ==
  [ phdr |-> [ achPresetName |-> "EOP", wPreset |-> 0, wBank |-> 0,
               dwLibrary |-> 0, dwGenre |-> 0, dwMorphology |-> 0 ],
    inst |-> [ achInstName |-> "EOI" ],
    pgen |-> [ sfGenOper |-> 0, genAmount |-> 0 ],
    igen |-> [ sfGenOper |-> 0, genAmount |-> 0 ],
    pmod |-> [ sfModSrcOper |-> 0, sfModDestOper |-> 0, modAmount |-> 0,
               sfModAmtSrcOper |-> 0, sfModTransOper |-> 0 ],
    imod |-> [ sfModSrcOper |-> 0, sfModDestOper |-> 0, modAmount |-> 0,
               sfModAmtSrcOper |-> 0, sfModTransOper |-> 0 ] ]

QuadIdle ==
  /\ family = "-" /\ ydir = <<>> /\ tabs = <<>> /\ sf = <<>> /\ qpc = "idle"

GapIdle ==
  /\ route = "-" /\ gseq = <<>> /\ gsm24 = FALSE /\ sdtaYml = <<>>
  /\ enc = <<>> /\ gpc = "idle"

BufIdle ==
  /\ shdr = <<>> /\ smpl = <<>> /\ sm24 = [has |-> FALSE, data |-> <<>>]

ZoneIdle ==
  /\ zlocal = "-" /\ zbag = <<>> /\ zlink = <<>> /\ zres = <<>> /\ zpc = "idle"

CompIdle ==
  /\ io = <<>> /\ prom = <<>> /\ metas = <<>> /\ wavs = <<>>
  /\ outfile = "idle" /\ status = <<>>

RefIdle ==
  /\ rfam = "-"
  /\ rgens = <<>>
  /\ rsmps = <<>>
  /\ rout = <<>>
  /\ rpc = "idle"

DescIdle ==
  /\ ytxt = <<>>

TermIdle ==
  /\ tfile = <<>>
  /\ tyml = <<>>
  /\ tenc = <<>>
  /\ tpc = "idle"

PosIdle ==
  /\ pyml = <<>>
  /\ pshdr = <<>>
  /\ pmeta = <<>>
  /\ penc = <<>>
  /\ pprom = <<>>
  /\ prows = <<>>

NameIdle ==
  /\ names0 = <<>>
  /\ fnames = <<>>
  /\ npc = "idle"

DecIdle ==
  /\ dfile = <<>>
  /\ dcalls = <<>>
  /\ wstarted = <<>>
  /\ writing = 0
  /\ writeQueue = <<>>
  /\ dstatus = "idle"

RiffIdle ==
  /\ rbuf = <<>>
  /\ rres = <<>>
  /\ rfpc = "idle"

RangeIdle ==
  /\ gcell = <<>>
  /\ gdec = <<>>
  /\ gdpc = "idle"

PairIdle ==
  /\ wshdr = <<>>
  /\ winsts = <<>>
  /\ wlog = <<>>
  /\ wfiles = <<>>
  /\ wstatus = "idle"
  /\ werr = <<>>

MemoIdle ==
  /\ mside = "idle"
  /\ mfile = <<>>
  /\ memo = <<>>
  /\ macc = 0

OrderIdle ==
  /\ odesc = <<>>
  /\ ores = <<>>
  /\ oorder = <<>>
  /\ oout = <<>>
  /\ opc = "idle"

GenIdle ==
  /\ gop = 0
  /\ gname = ""
  /\ gback = <<>>
  /\ gnpc = "idle"

InfoIdle ==
  /\ ichunks = <<>>
  /\ iyml = <<>>
  /\ ienc = <<>>
  /\ ipc = "idle"

InitQuad ==
  /\ GapIdle /\ BufIdle /\ ZoneIdle /\ CompIdle /\ RefIdle /\ DescIdle /\ TermIdle /\ PosIdle /\ NameIdle /\ DecIdle /\ RiffIdle /\ RangeIdle /\ PairIdle /\ MemoIdle /\ OrderIdle /\ GenIdle /\ InfoIdle
  /\ family \in {"p", "i"}
  /\ ydir \in {Build(family, s, 1, <<>>) : s \in Scripts(MaxScript)}
  /\ tabs = <<>>
  /\ sf = <<>>
  /\ qpc = "yaml"

\* YamlParse.presets() / instruments(): quad() over the descriptors.
Assemble ==
  /\ qpc = "yaml"
  /\ tabs' = Quad(family, ydir, Terminators, RefNames, RefNames)
  /\ qpc' = IF tabs'.err = "none" THEN "sf2" ELSE "failed"
  /\ UNCHANGED <<family, ydir, sf>>
  /\ UNCHANGED gapVars
  /\ UNCHANGED bufVars
  /\ UNCHANGED zoneVars
  /\ UNCHANGED compVars
  /\ UNCHANGED refVars
  /\ UNCHANGED descVars
  /\ UNCHANGED termVars
  /\ UNCHANGED posVars
  /\ UNCHANGED nameVars
  /\ UNCHANGED decVars
  /\ UNCHANGED riffVars
  /\ UNCHANGED rangeVars
  /\ UNCHANGED pairVars
  /\ UNCHANGED memoVars
  /\ UNCHANGED orderVars
  /\ UNCHANGED genVars
  /\ UNCHANGED infoVars

\* The decoder reads sf2.phdr / sf2.inst of the written tables.
Decode ==
  /\ qpc = "sf2"
  /\ sf' = [ bag   |-> SF2Bag(family, tabs),
             zones |-> [k \in 1..Len(tabs.hdr) - 1 |-> SF2Zones(family, tabs, k)],
             hdr   |-> SF2Hdr(family, tabs, LinkRows) ]
  /\ qpc' = "decoded"
  /\ UNCHANGED <<family, ydir, tabs>>
  /\ UNCHANGED gapVars
  /\ UNCHANGED bufVars
  /\ UNCHANGED zoneVars
  /\ UNCHANGED compVars
  /\ UNCHANGED refVars
  /\ UNCHANGED descVars
  /\ UNCHANGED termVars
  /\ UNCHANGED posVars
  /\ UNCHANGED nameVars
  /\ UNCHANGED decVars
  /\ UNCHANGED riffVars
  /\ UNCHANGED rangeVars
  /\ UNCHANGED pairVars
  /\ UNCHANGED memoVars
  /\ UNCHANGED orderVars
  /\ UNCHANGED genVars
  /\ UNCHANGED infoVars

\* new YamlGen(sf2, dir): every preset / instrument row of the decoded file
\* becomes a descriptor; the names of the referenced table are its rows'
\* names.
Describe ==
  /\ qpc = "decoded"
  /\ sf.hdr.err = "none"
  /\ ytxt' = [k \in 1..Len(sf.hdr.rows) |->
                IF family = "p" THEN YamlGenPreset(sf.hdr.rows[k], RefNames)
                ELSE YamlGenInstrument(sf.hdr.rows[k], RefNames)]
  /\ qpc' = "text"
  /\ UNCHANGED <<family, ydir, tabs, sf>>
  /\ UNCHANGED gapVars
  /\ UNCHANGED bufVars
  /\ UNCHANGED zoneVars
  /\ UNCHANGED compVars
  /\ UNCHANGED refVars
  /\ UNCHANGED termVars
  /\ UNCHANGED posVars
  /\ UNCHANGED nameVars
  /\ UNCHANGED decVars
  /\ UNCHANGED riffVars
  /\ UNCHANGED rangeVars
  /\ UNCHANGED pairVars
  /\ UNCHANGED memoVars
  /\ UNCHANGED orderVars
  /\ UNCHANGED genVars
  /\ UNCHANGED infoVars

NextQuad == Assemble \/ Decode \/ Describe

SpecQuad == InitQuad /\ [][NextQuad]_vars

(***************************************************************************)
(* Claims about quad() and the slicing getters.                            *)
(***************************************************************************)
\* The zones of a descriptor in bag order, and the text form of decoded rows.
DescZones(e) == (IF e.hasGlobal THEN <<e.global>> ELSE <<>>) \o e.zones

DescGens(z) ==
  [i \in 1..Len(z.gens) |->
     [k |-> z.gens[i].k,
      v |-> IF z.gens[i].k \in {"instrument", "sampleID"}
            THEN DictGet(RefNames, z.gens[i].v) ELSE z.gens[i].v]]

GensText(gens) ==
  [i \in 1..Len(gens) |->
     [k |-> GeneratorName(gens[i].sfGenOper), v |-> GeneratorValue(gens[i])]]

ModsText(mods) ==
  [i \in 1..Len(mods) |-> [n \in RowNames("pmod") |-> mods[i][n]]]

RECURSIVE SumLen(_, _, _)
SumLen(rows, field, n) ==
  IF n > Len(rows) THEN 0 ELSE Len(rows[n][field]) + SumLen(rows, field, n + 1)

\* C1: the tables quad() builds, sliced by the getters' adjacency rule, give
\* back for every entity its zones in order (global first) and for every zone
\* its generators and modifiers in order; the terminator generator and
\* modifier rows are in no zone.
C1_AssembleSliceRoundTrip ==
  qpc = "decoded" =>
    /\ Len(sf.zones) = Len(ydir)
    /\ \A k \in 1..Len(ydir) :
         LET exp == DescZones(ydir[k])
             got == sf.zones[k]
         IN  /\ Len(got) = Len(exp)
             /\ \A j \in 1..Len(exp) :
                  /\ GensText(got[j].gens) = DescGens(exp[j])
                  /\ ModsText(got[j].mods) = exp[j].mods
    /\ SumLen(sf.bag, "gens", 1) = Len(tabs.gen) - 1
    /\ SumLen(sf.bag, "mods", 1) = Len(tabs.mod) - 1
    /\ \A b \in 1..Len(sf.bag) : \A i \in 1..Len(sf.bag[b].mods) :
         sf.bag[b].mods[i].id # Len(tabs.mod) - 1

\* Two entities, the first with a global zone that has a generator and a
\* local zone that has a generator and a modifier, decoded.
C1_Witness ==
  /\ qpc = "decoded"
  /\ Len(ydir) >= 2
  /\ ydir[1].hasGlobal /\ Len(ydir[1].global.gens) >= 1
  /\ Len(ydir[1].zones) >= 1
  /\ Len(ydir[1].zones[1].gens) >= 1 /\ Len(ydir[1].zones[1].mods) >= 1
  /\ sf.hdr.err = "none"


(***************************************************************************)
(* Claims about the start indices quad() writes.                           *)
(***************************************************************************)
Assembled == qpc # "yaml" /\ tabs.err = "none"

\* The zones of all descriptors in bag order.
RECURSIVE AllZones(_, _)
AllZones(lst, n) ==
  IF n > Len(lst) THEN <<>> ELSE DescZones(lst[n]) \o AllZones(lst, n + 1)

\* The zones of the first n descriptors.
ZonesBefore(lst, n) == AllZones(SubSeq(lst, 1, n), 1)

NonDecreasing(rows, field) ==
  \A k \in 1..Len(rows) - 1 : rows[k][field] <= rows[k + 1][field]

\* C21: every header row starts at the number of bag rows of the entities
\* before it, every bag row starts at the numbers of generators and modifiers
\* of the bag rows before it, the terminator header starts at the number of
\* bag rows without the terminator, the terminator bag at the numbers of
\* generators and modifiers without the terminators; the start indices never
\* decrease in row order.
C21_AssemblerIndex ==
  Assembled =>
    LET f  == NdxFields(family)
        zs == AllZones(ydir, 1)
    IN  /\ Len(tabs.hdr) = Len(ydir) + 1
        /\ Len(tabs.bag) = Len(zs) + 1
        /\ \A k \in 1..Len(ydir) :
             tabs.hdr[k][f.bag] = Len(ZonesBefore(ydir, k - 1))
        /\ tabs.hdr[Len(ydir) + 1][f.bag] = Len(tabs.bag) - 1
        /\ \A b \in 1..Len(zs) :
             /\ tabs.bag[b][f.gen] = SumLen(SubSeq(zs, 1, b - 1), "gens", 1)
             /\ tabs.bag[b][f.mod] = SumLen(SubSeq(zs, 1, b - 1), "mods", 1)
        /\ tabs.bag[Len(zs) + 1][f.gen] = Len(tabs.gen) - 1
        /\ tabs.bag[Len(zs) + 1][f.mod] = Len(tabs.mod) - 1
        /\ Len(tabs.gen) - 1 = SumLen(zs, "gens", 1)
        /\ Len(tabs.mod) - 1 = SumLen(zs, "mods", 1)
        /\ NonDecreasing(tabs.hdr, f.bag)
        /\ NonDecreasing(tabs.bag, f.gen)
        /\ NonDecreasing(tabs.bag, f.mod)

\* Two entities, the first with a global zone and a local zone that both
\* have generators, the second with a zone: the second header starts at bag
\* row 2 and the second bag row after the global zone's generators.
C21_Witness ==
  /\ Assembled
  /\ Len(ydir) = 2
  /\ ydir[1].hasGlobal /\ Len(ydir[1].global.gens) >= 1
  /\ Len(ydir[1].zones) = 1 /\ Len(ydir[1].zones[1].gens) >= 1
  /\ Len(ydir[2].zones) >= 1
  /\ tabs.hdr[2][NdxFields(family).bag] = 2
  /\ tabs.bag[2][NdxFields(family).gen] >= 1

(***************************************************************************)
(* Claims about the descriptors.                                           *)
(***************************************************************************)
Described == qpc = "text"

\* The first zone of a decoded entity does not end with the terminal
\* reference generator.
FirstLacksRef(row) ==
  \/ Len(row.zones[1].gens) = 0
  \/ GeneratorName(row.zones[1].gens[Len(row.zones[1].gens)].sfGenOper)
       # NdxFields(family).local

TextOf(row, k) == ZoneText(row.zones[k], NdxFields(family).local, RefNames)

\* C12: the descriptor of every preset and of every instrument whose first
\* zone does not end with the terminal reference generator carries that zone
\* as global and lists the remaining zones under zones; an entity whose
\* first zone ends with the terminal reference generator has no global.
C12_TextGlobalZone ==
  Described =>
    \A k \in DOMAIN ytxt :
      LET row == sf.hdr.rows[k]
      IN  Len(row.zones) > 0 =>
            IF FirstLacksRef(row)
            THEN /\ ytxt[k].hasGlobal
                 /\ ytxt[k].global = TextOf(row, 1)
                 /\ ytxt[k].zones
                      = [j \in 1..Len(row.zones) - 1 |-> TextOf(row, j + 1)]
            ELSE ~ytxt[k].hasGlobal

\* The same for presets whose first zone has a generator.
C12_PresetWithGens ==
  (Described /\ family = "p") =>
    \A k \in DOMAIN ytxt :
      LET row == sf.hdr.rows[k]
      IN  (Len(row.zones) > 0 /\ Len(row.zones[1].gens) > 0) =>
            IF FirstLacksRef(row)
            THEN /\ ytxt[k].hasGlobal
                 /\ ytxt[k].global = TextOf(row, 1)
                 /\ ytxt[k].zones
                      = [j \in 1..Len(row.zones) - 1 |-> TextOf(row, j + 1)]
            ELSE ~ytxt[k].hasGlobal

(***************************************************************************)
(* The sample sequence: the gap list the decoder's sdta() emits and the    *)
(* encoder's riff_sdta() / sdta() / sdta16() replay.                       *)
(***************************************************************************)
\* let gaplen = 32 in YamlGen.sdta and in YamlParse.sdta16
DecoderGap == 32
EncoderGap == 32

\* The legacy emission of src/src/sf2toyaml.js: every gap is compared with
\* 32, a marker does not become the running default.
RECURSIVE EmitLoopFixed(_, _, _, _, _)
EmitLoopFixed(seq, has24, n, gaplen, res) ==
  IF n > Len(seq) THEN res
  ELSE LET s   == seq[n]
           nm  == [ kind |-> "name", name |-> s.name, length |-> s.end - s.start,
                    bits |-> IF has24 THEN 24 ELSE 16, sm24 |-> has24 ]
       IN  EmitLoopFixed(seq, has24, n + 1, gaplen,
             IF s.next - s.end # gaplen
             THEN Append(Append(res, nm), [kind |-> "gap", gap |-> s.next - s.end])
             ELSE Append(res, nm))

\* YamlGen.sdta, the loop over the final segments: the wav file and the
\* descriptor of each segment, its name pushed to the list, then a marker
\* when the following gap differs from the running default.
RECURSIVE EmitLoop(_, _, _, _, _)
EmitLoop(seq, has24, n, gaplen, res) ==
  IF n > Len(seq) THEN res
  ELSE LET s   == seq[n]
           nm  == [ kind |-> "name", name |-> s.name, length |-> s.end - s.start,
                    bits |-> IF has24 THEN 24 ELSE 16, sm24 |-> has24 ]
       IN  IF s.next - s.end # gaplen
           THEN EmitLoop(seq, has24, n + 1, s.next - s.end,
                         Append(Append(res, nm),
                                [kind |-> "gap", gap |-> s.next - s.end]))
           ELSE EmitLoop(seq, has24, n + 1, gaplen, Append(res, nm))

EmitSdtaYml(seq, has24) == EmitLoop(seq, has24, 1, DecoderGap, <<>>)

\* YamlParse.readWav of one name of sdta.yml (its checks of the format; the
\* digest check is modelled with compile()): 16 bit payloads only, and the
\* payload has 2 bytes per declared sample point.
ReadWav(item) ==
  IF item.bits = 24 THEN [err |-> "24bit samples not supported yet"]
  ELSE [ err |-> "none", kind |-> "sample", name |-> item.name,
         length |-> item.length, bytes |-> 2 * item.length, sm24 |-> item.sm24 ]

\* samples.pop()
Pop(q) == IF Len(q) = 0 THEN q ELSE SubSeq(q, 1, Len(q) - 1)

\* sdta16 whose gap marker only changes the gaps of the samples after it
\* (the gap already pushed is kept).
RECURSIVE Sdta16LoopNoPop(_, _, _, _, _, _)
Sdta16LoopNoPop(lst, n, gaplen, samples, len, pos) ==
  IF n > Len(lst)
  THEN [err |-> "none", samples |-> samples, len |-> 2 * len, pos |-> pos]
  ELSE LET s == lst[n]
       IN  IF s.kind = "gap"
           THEN Sdta16LoopNoPop(lst, n + 1, s.gap, samples, len, pos)
           ELSE IF s.bytes # 2 * s.length
           THEN [err |-> "Length mismatch"]
           ELSE Sdta16LoopNoPop(lst, n + 1, gaplen,
                  samples \o << [kind |-> "data", name |-> s.name, bytes |-> s.bytes],
                                [kind |-> "zeros", bytes |-> 2 * gaplen] >>,
                  len + s.length + gaplen, Append(pos, len))

\* YamlParse.sdta16, the loop: a marker replaces the gap buffer pushed last
\* and becomes the running gap; a sample is placed at len, followed by the
\* running gap.
RECURSIVE Sdta16Loop(_, _, _, _, _, _)
Sdta16Loop(lst, n, gaplen, samples, len, pos) ==
  IF n > Len(lst)
  THEN [err |-> "none", samples |-> samples, len |-> 2 * len, pos |-> pos]
  ELSE LET s == lst[n]
       IN  IF s.kind = "gap"
           THEN Sdta16Loop(lst, n + 1, s.gap,
                  Append(Pop(samples), [kind |-> "zeros", bytes |-> 2 * s.gap]),
                  len + s.gap - gaplen, pos)
           ELSE IF s.bytes # 2 * s.length
           THEN [err |-> "Length mismatch"]
           ELSE Sdta16Loop(lst, n + 1, gaplen,
                  samples \o << [kind |-> "data", name |-> s.name, bytes |-> s.bytes],
                                [kind |-> "zeros", bytes |-> 2 * gaplen] >>,
                  len + s.length + gaplen, Append(pos, len))

Sdta16(lst) == Sdta16Loop(lst, 1, EncoderGap, <<>>, 0, <<>>)

\* YamlParse.sdta: lst.every(s => !s.meta.sdta || s.meta.sdta.sm24) stops
\* at the first sample without an sm24 digest; a gap marker it gets to has
\* no meta, and reading s.meta.sdta throws a TypeError.
RECURSIVE SdtaEvery(_, _)
SdtaEvery(lst, n) ==
  IF n > Len(lst) THEN "all"
  ELSE IF lst[n].kind = "gap" THEN "TypeError"
  ELSE IF lst[n].sm24 THEN SdtaEvery(lst, n + 1)
  ELSE "some16"

Sdta(lst) ==
  CASE SdtaEvery(lst, 1) = "TypeError" ->
         [err |-> "TypeError: Cannot read property 'sdta' of undefined"]
    [] SdtaEvery(lst, 1) = "all" ->
         [err |-> "Writing of the sm24 chunk isn't supported yet."]
    [] OTHER -> Sdta16(lst)

\* YamlParse.riff_sdta: every name through readWav, markers as they are,
\* then sdta() over the list.
RiffSdta(yml) ==
  LET rd == [k \in 1..Len(yml) |->
               IF yml[k].kind = "name" THEN ReadWav(yml[k])
               ELSE [err |-> "none", kind |-> "gap", gap |-> yml[k].gap]]
  IN  IF \E k \in 1..Len(yml) : rd[k].err # "none"
      THEN [err |-> "24bit samples not supported yet"]
      ELSE Sdta(rd)

(***************************************************************************)
(* SpecGap: a sample sequence goes from the decoder's segments to sdta.yml *)
(* and through the encoder, or a given sdta.yml goes through the encoder.  *)
(***************************************************************************)
\* Gap widths tried, in sample points: none, narrower than the default, the
\* default, wider.
GapWidths == {0, 16, DecoderGap, 64}

SeqsUpTo(S, n) == UNION {[1..k -> S] : k \in 0..n}

\* Segment k has k sample points; it starts where segment k-1 and the gap
\* after it end.
RECURSIVE SegSeqFrom(_, _, _, _)
SegSeqFrom(gaps, n, start, acc) ==
  IF n > Len(gaps) THEN acc
  ELSE SegSeqFrom(gaps, n + 1, start + n + gaps[n],
         Append(acc, [ name |-> "s" \o ToString(n), start |-> start,
                       end |-> start + n, next |-> start + n + gaps[n] ]))

SegSeq(gaps) == SegSeqFrom(gaps, 1, 0, <<>>)

\* A given sdta.yml: names of 16 bit samples (with or without an sm24
\* digest in their descriptor) and gap markers, in any order.
YamlTokens ==
  [kind : {"name"}, sm24 : BOOLEAN] \cup [kind : {"gap"}, gap : GapWidths]

YamlList(toks) ==
  [k \in 1..Len(toks) |->
     IF toks[k].kind = "name"
     THEN [ kind |-> "name", name |-> "s" \o ToString(k), length |-> k,
            bits |-> 16, sm24 |-> toks[k].sm24 ]
     ELSE toks[k]]

InitGap ==
  /\ QuadIdle /\ BufIdle /\ ZoneIdle /\ CompIdle /\ RefIdle /\ DescIdle /\ TermIdle /\ PosIdle /\ NameIdle /\ DecIdle /\ RiffIdle /\ RangeIdle /\ PairIdle /\ MemoIdle /\ OrderIdle /\ GenIdle /\ InfoIdle
  /\ enc = <<>>
  /\ \/ /\ route = "sf2" /\ gpc = "segs"
        /\ gsm24 \in BOOLEAN
        /\ gseq \in {SegSeq(g) : g \in SeqsUpTo(GapWidths, MaxSegs) \ {<<>>}}
        /\ sdtaYml = <<>>
     \/ /\ route = "yaml" /\ gpc = "yaml"
        /\ gsm24 = FALSE
        /\ gseq = <<>>
        /\ sdtaYml \in {YamlList(t) : t \in SeqsUpTo(YamlTokens, MaxList)}

\* YamlGen.sdta writes the wav files, the descriptors and sdta.yml.
EmitSdta ==
  /\ gpc = "segs"
  /\ sdtaYml' = EmitSdtaYml(gseq, gsm24)
  /\ gpc' = "yaml"
  /\ UNCHANGED <<route, gseq, gsm24, enc>>
  /\ UNCHANGED quadVars
  /\ UNCHANGED bufVars
  /\ UNCHANGED zoneVars
  /\ UNCHANGED compVars
  /\ UNCHANGED refVars
  /\ UNCHANGED descVars
  /\ UNCHANGED termVars
  /\ UNCHANGED posVars
  /\ UNCHANGED nameVars
  /\ UNCHANGED decVars
  /\ UNCHANGED riffVars
  /\ UNCHANGED rangeVars
  /\ UNCHANGED pairVars
  /\ UNCHANGED memoVars
  /\ UNCHANGED orderVars
  /\ UNCHANGED genVars
  /\ UNCHANGED infoVars

\* YamlParse.riff_sdta over sdta.yml.
EncodeSdta ==
  /\ gpc = "yaml"
  /\ enc' = RiffSdta(sdtaYml)
  /\ gpc' = "encoded"
  /\ UNCHANGED <<route, gseq, gsm24, sdtaYml>>
  /\ UNCHANGED quadVars
  /\ UNCHANGED bufVars
  /\ UNCHANGED zoneVars
  /\ UNCHANGED compVars
  /\ UNCHANGED refVars
  /\ UNCHANGED descVars
  /\ UNCHANGED termVars
  /\ UNCHANGED posVars
  /\ UNCHANGED nameVars
  /\ UNCHANGED decVars
  /\ UNCHANGED riffVars
  /\ UNCHANGED rangeVars
  /\ UNCHANGED pairVars
  /\ UNCHANGED memoVars
  /\ UNCHANGED orderVars
  /\ UNCHANGED genVars
  /\ UNCHANGED infoVars

NextGap == EmitSdta \/ EncodeSdta

SpecGap == InitGap /\ [][NextGap]_vars

(***************************************************************************)
(* Claims about the gap list.                                              *)
(***************************************************************************)
\* C2: the names and markers the decoder emits for a segment sequence are
\* replayed by sdta16() so that the zero gap written after every segment
\* has the width of the original gap.
C2_GapListRoundTrip ==
  (route = "sf2" /\ gpc = "encoded") =>
    /\ ~gsm24 => enc.err = "none"
    /\ enc.err = "none" =>
         /\ Len(enc.samples) = 2 * Len(gseq)
         /\ \A i \in 1..Len(gseq) :
              /\ enc.samples[2 * i - 1] =
                   [ kind |-> "data", name |-> gseq[i].name,
                     bytes |-> 2 * (gseq[i].end - gseq[i].start) ]
              /\ enc.samples[2 * i] =
                   [ kind |-> "zeros",
                     bytes |-> 2 * (gseq[i].next - gseq[i].end) ]

\* A decoded sequence whose gaps are 64, 64 and then 32 (a marker, no
\* marker, a marker back to the default), encoded again.
C2_Witness ==
  /\ route = "sf2" /\ gpc = "encoded" /\ enc.err = "none"
  /\ \E i \in 1..Len(gseq) - 2 :
       /\ gseq[i].next - gseq[i].end = 64
       /\ gseq[i + 1].next - gseq[i + 1].end = 64
       /\ gseq[i + 2].next - gseq[i + 2].end = 32

\* The list starts with a marker, or has two markers in a row.
GapBeforeSample(yml) == Len(yml) > 0 /\ yml[1].kind = "gap"

TwoGapsInARow(yml) ==
  \E i \in 1..Len(yml) - 1 : yml[i].kind = "gap" /\ yml[i + 1].kind = "gap"

\* C6: a marker before any sample, or two markers with no sample between
\* them, make encoding fail with an error instead of producing a buffer.
C6_GapSequencingErrors ==
  (gpc = "encoded" /\ (GapBeforeSample(sdtaYml) \/ TwoGapsInARow(sdtaYml)))
    => enc.err # "none"

\* The gap the documentation gives the sample at position p of the list: the
\* value of the last marker up to the one right after it, 32 without one.
DocGap(yml, p) ==
  LET M == {i \in 1..Len(yml) : i <= p + 1 /\ yml[i].kind = "gap"}
  IN  IF M = {} THEN 32
      ELSE yml[CHOOSE i \in M : \A j \in M : j <= i].gap

NamesUpTo(yml, p) == Cardinality({i \in 1..p : yml[i].kind = "name"})

\* C7: in sdta16(), for a list that starts with a sample and has no two
\* markers in a row, the zero gap after each sample is the width of the
\* last marker up to the one placed right after that sample, and 32 sample
\* points when there is none: a marker changes the gap of the sample it
\* follows and of the later ones, not of the earlier ones.
C7_GapOverrideScope ==
  (gpc = "encoded" /\ enc.err = "none" /\ ~TwoGapsInARow(sdtaYml)) =>
    /\ Len(enc.samples) = 2 * NamesUpTo(sdtaYml, Len(sdtaYml))
    /\ \A p \in 1..Len(sdtaYml) :
         sdtaYml[p].kind = "name" =>
           /\ enc.samples[2 * NamesUpTo(sdtaYml, p) - 1].name = sdtaYml[p].name
           /\ enc.samples[2 * NamesUpTo(sdtaYml, p)] =
                [kind |-> "zeros", bytes |-> 2 * DocGap(sdtaYml, p)]

\* Three samples, a marker of 64, a fourth sample: gaps 32, 32, 64, 64.
C7_Witness ==
  /\ route = "yaml" /\ gpc = "encoded" /\ enc.err = "none"
  /\ Len(sdtaYml) = 5
  /\ \A i \in {1, 2, 3, 5} : sdtaYml[i].kind = "name"
  /\ sdtaYml[4] = [kind |-> "gap", gap |-> 64]
  /\ enc.samples[2].bytes = 64 /\ enc.samples[4].bytes = 64
  /\ enc.samples[6].bytes = 128 /\ enc.samples[8].bytes = 128

(***************************************************************************)
(* The decoder's sdta(): from the sample headers and the sample data to    *)
(* the segment sequence.                                                   *)
(***************************************************************************)
\* SdtaDedup keeping the last header of each start offset instead of the
\* first.
RECURSIVE SdtaDedupLast(_, _, _, _)
SdtaDedupLast(hdrs, n, seen, seq) ==
  IF n > Len(hdrs) THEN seq
  ELSE LET link == [ name |-> "s" \o ToString(hdrs[n].id),
                     start |-> hdrs[n].dwStart, end |-> hdrs[n].dwEnd,
                     next |-> Undefined, shdr |-> hdrs[n].id ]
       IN  IF hdrs[n].dwStart \in seen
           THEN SdtaDedupLast(hdrs, n + 1, seen,
                  [k \in DOMAIN seq |->
                     IF seq[k].start = link.start THEN link ELSE seq[k]])
           ELSE SdtaDedupLast(hdrs, n + 1, seen \cup {link.start},
                              Append(seq, link))

\* for (let s of this.sf2.shdr): the first header of each start offset
\* becomes a segment, named this.samples[s.id].
RECURSIVE SdtaDedup(_, _, _, _)
SdtaDedup(hdrs, n, seen, seq) ==
  IF n > Len(hdrs) THEN seq
  ELSE IF hdrs[n].dwStart \in seen THEN SdtaDedup(hdrs, n + 1, seen, seq)
  ELSE SdtaDedup(hdrs, n + 1, seen \cup {hdrs[n].dwStart},
         Append(seq, [ name |-> "s" \o ToString(hdrs[n].id),
                       start |-> hdrs[n].dwStart, end |-> hdrs[n].dwEnd,
                       next |-> Undefined, shdr |-> hdrs[n].id ]))

\* seq.sort((a, b) => a.start - b.start)
RECURSIVE SortByStart(_, _, _)
InsertByStart(sorted, x) ==
  LET k == Cardinality({i \in 1..Len(sorted) : sorted[i].start <= x.start})
  IN  SubSeq(sorted, 1, k) \o <<x>> \o SubSeq(sorted, k + 1, Len(sorted))

SortByStart(seq, n, acc) ==
  IF n > Len(seq) THEN acc
  ELSE SortByStart(seq, n + 1, InsertByStart(acc, seq[n]))

\* The test of a gap point that looks at the smpl chunk only.
PointNonZeroSmplOnly(buf, lo, j) == buf[j + 1] # 0

\* smpl.data.readUInt16LE(j << 1) || (sm24 && sm24.data.readUInt8(j))
PointNonZero(buf, lo, j) ==
  buf[j + 1] # 0 \/ (lo.has /\ lo.data[j + 1] # 0)

\* SdtaGapLoop without the clamp of a's end to b's start.
RECURSIVE SdtaGapLoopNoClamp(_, _, _, _)
SdtaGapLoopNoClamp(seq, k, buf, lo) ==
  IF k + 1 > Len(seq) THEN seq
  ELSE LET a    == seq[k]
           b    == seq[k + 1]
           nz   == \E j \in a.end..(b.start - 1) : PointNonZero(buf, lo, j)
           link == [ name |-> a.name \o "_", start |-> a.end, end |-> b.start,
                     next |-> b.start, shdr |-> Undefined ]
           a2   == [a EXCEPT !.next = IF nz THEN link.start ELSE b.start]
       IN  SdtaGapLoopNoClamp(
             SubSeq(seq, 1, k - 1) \o <<a2>> \o
               (IF nz THEN <<link>> ELSE <<>>) \o SubSeq(seq, k + 1, Len(seq)),
             k + 1, buf, lo)

\* SdtaGapLoop with the hidden segment starting at the first non-zero point
\* of the gap.
RECURSIVE SdtaGapLoopFromPoint(_, _, _, _)
SdtaGapLoopFromPoint(seq, k, buf, lo) ==
  IF k + 1 > Len(seq) THEN seq
  ELSE LET a    == seq[k]
           b    == seq[k + 1]
           aEnd == IF a.end > b.start THEN b.start ELSE a.end
           NZ   == {j \in aEnd..(b.start - 1) : PointNonZero(buf, lo, j)}
           nz   == NZ # {}
           link == [ name |-> a.name \o "_",
                     start |-> IF nz THEN CHOOSE j \in NZ : \A i \in NZ : j <= i
                               ELSE aEnd,
                     end |-> b.start, next |-> b.start, shdr |-> Undefined ]
           a2   == [a EXCEPT !.end = aEnd,
                             !.next = IF nz THEN link.start ELSE b.start]
       IN  SdtaGapLoopFromPoint(
             SubSeq(seq, 1, k - 1) \o <<a2>> \o
               (IF nz THEN <<link>> ELSE <<>>) \o SubSeq(seq, k + 1, Len(seq)),
             k + 1, buf, lo)

\* for (i = 1; i < seq.length; ++i): a = seq[i-1], b = seq[i]; a.next = b,
\* a's end clamped to b's start, and a gap with a non-zero point becomes a
\* segment of its own, spliced in before b.  k is the position of a.
RECURSIVE SdtaGapLoop(_, _, _, _)
SdtaGapLoop(seq, k, buf, lo) ==
  IF k + 1 > Len(seq) THEN seq
  ELSE LET a    == seq[k]
           b    == seq[k + 1]
           aEnd == IF a.end > b.start THEN b.start ELSE a.end
           nz   == \E j \in aEnd..(b.start - 1) : PointNonZero(buf, lo, j)
           link == [ name |-> a.name \o "_", start |-> aEnd, end |-> b.start,
                     next |-> b.start, shdr |-> Undefined ]
           a2   == [a EXCEPT !.end = aEnd,
                             !.next = IF nz THEN link.start ELSE b.start]
       IN  SdtaGapLoop(
             SubSeq(seq, 1, k - 1) \o <<a2>> \o
               (IF nz THEN <<link>> ELSE <<>>) \o SubSeq(seq, k + 1, Len(seq)),
             k + 1, buf, lo)

\* YamlGen.sdta up to seq.pop(): the final segments.
SdtaSegments(hdrs, buf, lo) ==
  LET s1  == SortByStart(SdtaDedup(hdrs, 1, {}, <<>>), 1, <<>>)
      s2  == IF s1[1].start # 0
             THEN << [ name |-> "_", start |-> 0, end |-> s1[1].start,
                       next |-> Undefined, shdr |-> Undefined ] >> \o s1
             ELSE s1
      s3  == Append(s2, [ name |-> "_END_", start |-> Len(buf), end |-> Len(buf),
                          next |-> Undefined, shdr |-> Undefined ])
      s4  == SdtaGapLoop(s3, 1, buf, lo)
  IN  Pop(s4)

\* this.writeYaml("samples/" + s.name, shdr, sampleKeys) for every segment
\* of the sequence: the descriptor files sdta() writes.
SampleDescriptors(seq) == {"samples/" \o seq[i].name \o ".yml" : i \in DOMAIN seq}

\* this.writeYaml("shdr", this.samples): the names shdr.yml lists, one per
\* header row.
ShdrYml(hdrs) == [h \in DOMAIN hdrs |-> "s" \o ToString(hdrs[h].id)]

(***************************************************************************)
(* SpecSdta: a file's sample headers and sample data are decoded by        *)
(* YamlGen.sdta() and sdta.yml is encoded again by riff_sdta().            *)
(***************************************************************************)
\* Header rows with dwStart <= dwEnd and dwStart within the buffer; dwEnd
\* may lie one point past the buffer.
HeaderRows(len) ==
  {h \in [dwStart : 0..len, dwEnd : 0..(len + 1)] : h.dwStart <= h.dwEnd}

InitSdta ==
  /\ QuadIdle /\ ZoneIdle /\ CompIdle /\ RefIdle /\ DescIdle /\ TermIdle /\ PosIdle /\ NameIdle /\ DecIdle /\ RiffIdle /\ RangeIdle /\ PairIdle /\ MemoIdle /\ OrderIdle /\ GenIdle /\ InfoIdle
  /\ route = "sf2" /\ gpc = "sf2"
  /\ gseq = <<>> /\ gsm24 = FALSE /\ sdtaYml = <<>> /\ enc = <<>>
  /\ \E len \in 0..MaxBuf :
       /\ smpl \in [1..len -> {0, 1}]
       /\ sm24 \in {[has |-> FALSE, data |-> <<>>]} \cup
                   {[has |-> TRUE, data |-> d] : d \in [1..len -> {0, 1}]}
       /\ shdr \in { [k \in 1..Len(hs) |-> [id |-> k - 1] @@ hs[k]] :
                     hs \in SeqsUpTo(HeaderRows(len), MaxHdr) \ {<<>>} }

\* new YamlGen(sf2): sdta() segments the buffer and writes sdta.yml.
DecodeSdta ==
  /\ gpc = "sf2"
  /\ gseq' = SdtaSegments(shdr, smpl, sm24)
  /\ gsm24' = sm24.has
  /\ sdtaYml' = EmitSdtaYml(gseq', gsm24')
  /\ gpc' = "yaml"
  /\ UNCHANGED <<route, enc>>
  /\ UNCHANGED quadVars
  /\ UNCHANGED bufVars
  /\ UNCHANGED zoneVars
  /\ UNCHANGED compVars
  /\ UNCHANGED refVars
  /\ UNCHANGED descVars
  /\ UNCHANGED termVars
  /\ UNCHANGED posVars
  /\ UNCHANGED nameVars
  /\ UNCHANGED decVars
  /\ UNCHANGED riffVars
  /\ UNCHANGED rangeVars
  /\ UNCHANGED pairVars
  /\ UNCHANGED memoVars
  /\ UNCHANGED orderVars
  /\ UNCHANGED genVars
  /\ UNCHANGED infoVars

NextSdta == DecodeSdta \/ EncodeSdta

SpecSdta == InitSdta /\ [][NextSdta]_vars

(***************************************************************************)
(* Claims about the decoded sample sequence.                               *)
(***************************************************************************)
Decoded == shdr # <<>> /\ gpc \in {"yaml", "encoded"}

RECURSIVE SegSpan(_, _)
SegSpan(seq, n) ==
  IF n > Len(seq) THEN 0
  ELSE (seq[n].end - seq[n].start) + (seq[n].next - seq[n].end)
       + SegSpan(seq, n + 1)

\* What C3 says besides the order of the start offsets: the first segment
\* starts at 0, no segment ends after the next one starts (nor before its
\* own start), and the segments with the gaps after them add up to the
\* buffer.
SegmentsPartition ==
  /\ Len(gseq) > 0 /\ gseq[1].start = 0
  /\ \A i \in 1..Len(gseq) : gseq[i].start <= gseq[i].end
  /\ \A i \in 1..Len(gseq) - 1 : gseq[i].end <= gseq[i + 1].start
  /\ SegSpan(gseq, 1) = Len(smpl)

\* C3 as claimed: after sdta() the start offsets are strictly increasing,
\* and the segments partition the buffer.
C3_StrictPartition ==
  Decoded =>
    /\ \A i \in 1..Len(gseq) - 1 : gseq[i].start < gseq[i + 1].start
    /\ SegmentsPartition

\* C3, amended: the start offsets never decrease, and two neighbours share
\* a start offset only when the earlier one is empty and the later one is
\* the hidden segment made of the gap after it; the segments partition the
\* buffer.
C3_Partition ==
  Decoded =>
    /\ \A i \in 1..Len(gseq) - 1 :
         \/ gseq[i].start < gseq[i + 1].start
         \/ /\ gseq[i].start = gseq[i + 1].start
            /\ gseq[i].end = gseq[i].start
            /\ gseq[i + 1].shdr = Undefined
            /\ gseq[i + 1].name = gseq[i].name \o "_"
    /\ SegmentsPartition

\* An empty sample followed by a hidden segment at its own start, and a
\* sample whose declared end was clamped.
C3_Witness ==
  /\ Decoded
  /\ \E i \in 1..Len(gseq) - 1 :
       gseq[i].start = gseq[i + 1].start /\ gseq[i + 1].shdr = Undefined
  /\ \E i \in 1..Len(gseq) : \E h \in 1..Len(shdr) :
       gseq[i].shdr = shdr[h].id /\ gseq[i].end < shdr[h].dwEnd

Covered(j) == \E i \in 1..Len(gseq) : gseq[i].start <= j /\ j < gseq[i].end

\* C4: after sdta(), every sample point that no emitted segment covers is
\* zero in the smpl chunk and, when there is an sm24 chunk, zero in it.
C4_GapsAreSilent ==
  Decoded =>
    \A j \in 0..(Len(smpl) - 1) :
      ~Covered(j) => smpl[j + 1] = 0 /\ (sm24.has => sm24.data[j + 1] = 0)

\* A hidden segment whose points are zero in smpl and not in sm24, next to
\* a silent gap that stays a gap.
C4_Witness ==
  /\ Decoded /\ sm24.has
  /\ \E i \in 1..Len(gseq) :
       /\ gseq[i].shdr = Undefined /\ gseq[i].start < gseq[i].end
       /\ \A j \in gseq[i].start..(gseq[i].end - 1) : smpl[j + 1] = 0
       /\ \E j \in gseq[i].start..(gseq[i].end - 1) : sm24.data[j + 1] # 0
  /\ \E j \in 0..(Len(smpl) - 1) : ~Covered(j)

\* Segment i is a hidden segment: the gap after segment i - 1 made into a
\* segment.
Hidden(i) ==
  /\ i >= 2 /\ gseq[i].shdr = Undefined
  /\ gseq[i].name = gseq[i - 1].name \o "_"

\* The points between the end of the segment before hidden segment i and
\* the start of the segment after it, and those of them that are not zero.
GapAround(i) == gseq[i - 1].end .. (gseq[i].next - 1)

LoudIn(i) == {j \in GapAround(i) : PointNonZero(smpl, sm24, j)}

\* C17 as claimed: a gap with a single non-zero point gets a hidden segment
\* that covers that point, and the silent points of the gap are not part of
\* the hidden segment.
C17_HiddenCoversPointOnly ==
  Decoded =>
    \A i \in 1..Len(gseq) :
      (Hidden(i) /\ Cardinality(LoudIn(i)) = 1) =>
        \A j \in GapAround(i) :
          (gseq[i].start <= j /\ j < gseq[i].end) <=> j \in LoudIn(i)

\* C17, amended: the hidden segment made of a gap with a non-zero point
\* covers the whole gap, from the (clamped) end of the segment before it to
\* the start of the segment after it, its silent points included; no gap is
\* left on either side of it.
C17_HiddenCoversGap ==
  Decoded =>
    \A i \in 1..Len(gseq) :
      Hidden(i) =>
        /\ LoudIn(i) # {}
        /\ gseq[i].start = gseq[i - 1].end
        /\ gseq[i - 1].next = gseq[i].start
        /\ gseq[i].end = gseq[i].next
        /\ \A j \in GapAround(i) : gseq[i].start <= j /\ j < gseq[i].end

\* Two declared samples with a gap of two points between them, one of the
\* points not zero: the hidden segment has both points.
C17_Witness ==
  /\ Decoded
  /\ \E i \in 2..Len(gseq) - 1 :
       /\ Hidden(i)
       /\ gseq[i - 1].shdr # Undefined /\ gseq[i + 1].shdr # Undefined
       /\ Cardinality(LoudIn(i)) = 1
       /\ gseq[i].end - gseq[i].start = 2


\* The declared segments: those made of a header row.
DeclaredSegs == {i \in 1..Len(gseq) : gseq[i].shdr # Undefined}

\* The first header row, in header order, that starts at offset o.
FirstRowAt(o) ==
  CHOOSE h \in 1..Len(shdr) :
    shdr[h].dwStart = o /\ \A g \in 1..(h - 1) : shdr[g].dwStart # o

\* The start of the next declared segment after offset o, the end of the
\* buffer when there is none: where sdta() cuts a segment that is declared
\* longer.
NextDeclared(o) ==
  LET S == {shdr[h].dwStart : h \in 1..Len(shdr)} \cap ((o + 1)..Len(smpl))
  IN  IF S = {} THEN Len(smpl) ELSE CHOOSE x \in S : \A y \in S : x <= y

\* C22: for every start offset of the header rows there is exactly one
\* declared segment; it has the name and the end of the first row of that
\* offset in header order (the end cut at the start of the next declared
\* segment), and the declared segments are in the order of their start
\* offsets whatever the order of the rows.
C22_StartDedup ==
  Decoded =>
    /\ \A h \in 1..Len(shdr) :
         \E i \in DeclaredSegs :
           /\ gseq[i].start = shdr[h].dwStart
           /\ \A j \in DeclaredSegs : gseq[j].start = shdr[h].dwStart => j = i
           /\ gseq[i].shdr = shdr[FirstRowAt(shdr[h].dwStart)].id
           /\ gseq[i].name = "s" \o ToString(shdr[FirstRowAt(shdr[h].dwStart)].id)
           /\ gseq[i].end = Min(shdr[FirstRowAt(shdr[h].dwStart)].dwEnd,
                                NextDeclared(shdr[h].dwStart))
    /\ \A i \in DeclaredSegs :
         \E h \in 1..Len(shdr) : shdr[h].dwStart = gseq[i].start
    /\ \A i, j \in DeclaredSegs : i < j => gseq[i].start < gseq[j].start

\* Two rows at one start offset above 0, the first with the later end: one
\* declared segment, after the leading one, with the end of the first row.
C22_Witness ==
  /\ Decoded
  /\ Len(shdr) = 2
  /\ shdr[1].dwStart = shdr[2].dwStart /\ shdr[1].dwStart > 0
  /\ shdr[1].dwEnd > shdr[2].dwEnd
  /\ Cardinality(DeclaredSegs) = 1
  /\ \E i \in DeclaredSegs :
       gseq[i].shdr = shdr[1].id /\ gseq[i].end = shdr[1].dwEnd


\* C27: for every sample header row, rows that start where an earlier row
\* starts included, the decoder writes samples/<name>.yml under the name
\* shdr.yml lists for the row, so that samples2() finds a descriptor for
\* every name of shdr.yml.
C27_EveryHeaderHasDescriptor ==
  Decoded =>
    \A h \in DOMAIN shdr :
      ("samples/" \o ShdrYml(shdr)[h] \o ".yml") \in SampleDescriptors(gseq)

\* The rows that get a descriptor are the first rows of their start offset.
C27_FirstOfOffsetOnly ==
  Decoded =>
    \A h \in DOMAIN shdr :
      ("samples/" \o ShdrYml(shdr)[h] \o ".yml") \in SampleDescriptors(gseq)
        <=> h = FirstRowAt(shdr[h].dwStart)

(***************************************************************************)
(* SpecZones: the zones of one preset or instrument go through             *)
(* SF2._localZones, as the phdr / inst getters call it.                    *)
(***************************************************************************)
GenRow(op, w) == [sfGenOper |-> op, genAmount |-> A2(w)]

LocalOper(local) == IndexOf(GeneratorNames, local)

\* The generator lists of a zone: none, pan and keyRange values, and the
\* terminal generator with index 0, 1 or 2, last in the list or not.
ZoneGens(local) ==
  LET L(i) == GenRow(LocalOper(local), i)
      P(v) == GenRow(17, v)
      K(v) == GenRow(43, v)
  IN  { <<>>, <<P(1)>>, <<P(1), P(2)>>, <<K(32512)>>, <<P(3), K(15360)>>,
        <<L(0)>>, <<L(1)>>, <<L(2)>>, <<P(2), L(0)>>, <<K(32512), P(4), L(1)>>,
        <<L(0), P(5)>>, <<L(2), L(0)>> }

ZoneMod ==
  [ sfModSrcOper |-> 2, sfModDestOper |-> 17, modAmount |-> 5,
    sfModAmtSrcOper |-> 0, sfModTransOper |-> 0 ]

\* The rows of pbag / ibag: a zone with modifiers is a global or a local one.
BagZones(local) ==
  {[gens |-> g, mods |-> <<>>] : g \in ZoneGens(local)} \cup
  { [gens |-> <<GenRow(17, 6)>>, mods |-> <<ZoneMod>>],
    [gens |-> <<GenRow(17, 7), GenRow(LocalOper(local), 0)>>,
     mods |-> <<ZoneMod, ZoneMod>>] }

InitZones ==
  /\ QuadIdle /\ GapIdle /\ BufIdle /\ CompIdle /\ RefIdle /\ DescIdle /\ TermIdle /\ PosIdle /\ NameIdle /\ DecIdle /\ RiffIdle /\ RangeIdle /\ PairIdle /\ MemoIdle /\ OrderIdle /\ GenIdle /\ InfoIdle
  /\ zlocal \in {"instrument", "sampleID"}
  /\ zbag \in SeqsUpTo(BagZones(zlocal), MaxZones)
  /\ \E n \in 0..MaxLink : zlink = [k \in 1..n |-> [id |-> k - 1]]
  /\ zres = <<>>
  /\ zpc = "bag"

\* cur.localZones = this._localZones(cur.zones, local, link)
LinkZones ==
  /\ zpc = "bag"
  /\ zres' = LocalZones(zbag, zlocal, zlink)
  /\ zpc' = "done"
  /\ UNCHANGED <<zlocal, zbag, zlink>>
  /\ UNCHANGED quadVars
  /\ UNCHANGED gapVars
  /\ UNCHANGED bufVars
  /\ UNCHANGED compVars
  /\ UNCHANGED refVars
  /\ UNCHANGED descVars
  /\ UNCHANGED termVars
  /\ UNCHANGED posVars
  /\ UNCHANGED nameVars
  /\ UNCHANGED decVars
  /\ UNCHANGED riffVars
  /\ UNCHANGED rangeVars
  /\ UNCHANGED pairVars
  /\ UNCHANGED memoVars
  /\ UNCHANGED orderVars
  /\ UNCHANGED genVars
  /\ UNCHANGED infoVars

NextZones == LinkZones

SpecZones == InitZones /\ [][NextZones]_vars

(***************************************************************************)
(* Claims about _localZones.                                               *)
(***************************************************************************)
Linked == zpc = "done"

\* The names of a zone's generators and the value the last generator of a
\* name has, read off the bag row.
GenNamesOf(z) == {GeneratorName(z.gens[i].sfGenOper) : i \in 1..Len(z.gens)}

LastValue(z, name) ==
  LET last == CHOOSE i \in 1..Len(z.gens) :
                /\ GeneratorName(z.gens[i].sfGenOper) = name
                /\ \A j \in (i + 1)..Len(z.gens) :
                     GeneratorName(z.gens[j].sfGenOper) # name
  IN  GeneratorValue(z.gens[last])

\* Zone k of the entity has no terminal generator / has one whose index
\* has no row in the table.
Lacking(k) == zlocal \notin GenNamesOf(zbag[k])

Unlinked(k) ==
  /\ ~Lacking(k)
  /\ LastValue(zbag[k], zlocal) \notin 0..(Len(zlink) - 1)

GlobalFirst == Len(zbag) > 0 /\ Lacking(1)

\* The bag row a returned zone was made from.
BagOf(k) == IF GlobalFirst THEN zbag[k + 1] ELSE zbag[k]

\* C8: when the first zone lacks the terminal generator it is removed as
\* the global zone; every remaining zone has the global zone's value for
\* each generator name it lacks and its own value for each name it has,
\* and keeps its own gens and mods lists.
C8_GlobalZoneInheritance ==
  (Linked /\ GlobalFirst /\ zres.err = "none") =>
    /\ Len(zres.zones) = Len(zbag) - 1
    /\ \A k \in 1..Len(zres.zones) :
         LET z == zres.zones[k]
         IN  /\ z.gens = zbag[k + 1].gens
             /\ z.mods = zbag[k + 1].mods
             /\ DOMAIN z.props = GenNamesOf(zbag[1]) \cup GenNamesOf(zbag[k + 1])
             /\ \A name \in GenNamesOf(zbag[k + 1]) \ {zlocal} :
                  z.props[name] = LastValue(zbag[k + 1], name)
             /\ \A name \in GenNamesOf(zbag[1]) \ GenNamesOf(zbag[k + 1]) :
                  z.props[name] = LastValue(zbag[1], name)

\* A global zone before two local zones, one of which inherits pan and
\* one of which has a pan of its own, different from the global one.
C8_Witness ==
  /\ Linked /\ GlobalFirst /\ zres.err = "none"
  /\ Len(zres.zones) >= 2
  /\ "pan" \in GenNamesOf(zbag[1])
  /\ \E k \in 2..Len(zbag) : "pan" \notin GenNamesOf(zbag[k])
  /\ \E k \in 2..Len(zbag) :
       /\ "pan" \in GenNamesOf(zbag[k])
       /\ LastValue(zbag[k], "pan") # LastValue(zbag[1], "pan")

\* The last part of C9: at most the first zone is treated as global, so a
\* successful call returns every zone but a first one without the terminal
\* generator, each with its reference.
OnlyFirstGlobal ==
  (Linked /\ zres.err = "none") =>
    /\ Len(zres.zones) = Len(zbag) - (IF GlobalFirst THEN 1 ELSE 0)
    /\ \A k \in 1..Len(zres.zones) :
         zlocal \in DOMAIN zres.zones[k].props /\ zres.zones[k].gens = BagOf(k).gens

\* C9 as claimed: a zone without the terminal generator at any position
\* but the first makes _localZones throw 'Unexpected global zone'.
C9_AlwaysUnexpectedGlobal ==
  /\ (Linked /\ \E k \in 2..Len(zbag) : Lacking(k)) =>
        zres.err = "Unexpected global zone"
  /\ OnlyFirstGlobal

\* C9, amended: such a zone makes _localZones throw, and the error is
\* 'Unexpected global zone' unless a zone before it has an index without a
\* row in the table, in which case it is the link error.
C9_UnexpectedGlobalZone ==
  /\ (Linked /\ \E k \in 2..Len(zbag) : Lacking(k)) =>
        LET first == CHOOSE k \in 2..Len(zbag) :
                       Lacking(k) /\ \A j \in 2..(k - 1) : ~Lacking(j)
        IN  IF \E j \in 1..(first - 1) : Unlinked(j)
            THEN zres.err = "Failed to link"
            ELSE zres.err = "Unexpected global zone"
  /\ OnlyFirstGlobal

\* A global zone, a linked zone and a second zone without the terminal
\* generator: the error is thrown.
C9_Witness ==
  /\ Linked /\ GlobalFirst
  /\ Len(zbag) = 3 /\ ~Lacking(2) /\ ~Unlinked(2) /\ Lacking(3)
  /\ zres.err = "Unexpected global zone"

\* A successful call gives every zone the row of the table its index
\* names.
ReferenceIsRow ==
  (Linked /\ zres.err = "none") =>
    \A k \in 1..Len(zres.zones) :
      zres.zones[k].props[zlocal] = zlink[LastValue(BagOf(k), zlocal) + 1]

\* C10 as claimed: an index without a row in the table (the terminator's
\* position included) makes _localZones throw the link error; otherwise the
\* reference is the row.
C10_AlwaysLinkError ==
  /\ (Linked /\ \E k \in 1..Len(zbag) : Unlinked(k)) =>
        zres.err = "Failed to link"
  /\ ReferenceIsRow

\* C10, amended: such an index makes _localZones throw, and the error is
\* the link error unless a zone before it, not the first, lacks the
\* terminal generator, in which case it is 'Unexpected global zone'.
C10_FailedToLink ==
  /\ (Linked /\ \E k \in 1..Len(zbag) : Unlinked(k)) =>
        LET first == CHOOSE k \in 1..Len(zbag) :
                       Unlinked(k) /\ \A j \in 1..(k - 1) : ~Unlinked(j)
        IN  IF \E j \in 2..(first - 1) : Lacking(j)
            THEN zres.err = "Unexpected global zone"
            ELSE zres.err = "Failed to link"
  /\ ReferenceIsRow

\* An index equal to the length of a table of rows, where the terminator
\* was: the link error is thrown.
C10_Witness ==
  /\ Linked /\ Len(zlink) >= 1
  /\ \E k \in 1..Len(zbag) :
       /\ Unlinked(k) /\ LastValue(zbag[k], zlocal) = Len(zlink)
       /\ \A j \in 1..(k - 1) : ~Unlinked(j) /\ ~Lacking(j)
  /\ zres.err = "Failed to link"

(***************************************************************************)
(* yamltosf2.js: the promises of compile().  A file read completes in a    *)
(* callback of its own; the reactions it sets off (then, Promise.all) run  *)
(* before the next callback does.                                          *)
(***************************************************************************)
\* The names sdta.yml and shdr.yml list.
SdtaNames == <<"a">>

SampleFile(n) == "samples/" \o SdtaNames[n]
WavFile(n)    == "wav/" \o SdtaNames[n]

\* The files compile() reads: term, RIFF, INFO, sdta, the three name lists,
\* the descriptors of the presets and of the instruments, and per sample its
\* descriptor and its wave file.
IoTasks ==
  {"term", "RIFF", "INFO", "sdta", "phdr", "inst", "shdr", "presets/",
   "instruments/"}
  \cup {SampleFile(n) : n \in DOMAIN SdtaNames}
  \cup {WavFile(n) : n \in DOMAIN SdtaNames}

Pending      == [st |-> "pending", why |-> ""]
Fulfilled    == [st |-> "fulfilled", why |-> ""]
Rejected(e)  == [st |-> "rejected", why |-> e]

\* readFile / readYaml: the promise of a read.
ReadPromise(ioS, t) ==
  IF ioS[t] = "ok" THEN Fulfilled
  ELSE IF ioS[t] = "fail" THEN Rejected("ENOENT: " \o t)
  ELSE Pending

\* Promise.all over promises that settle in one round of reactions: the
\* rejection of the first rejected one in list order, else pending while
\* one is pending.
PromiseAll(ps) ==
  IF \E i \in DOMAIN ps : ps[i].st = "rejected"
  THEN ps[CHOOSE i \in DOMAIN ps :
            /\ ps[i].st = "rejected"
            /\ \A j \in 1..(i - 1) : ps[j].st # "rejected"]
  ELSE IF \A i \in DOMAIN ps : ps[i].st = "fulfilled" THEN Fulfilled
  ELSE Pending

\* promise.then(handler) for a handler that runs at once: its outcome when
\* the promise is fulfilled, else the promise's own state.
Then(pr, outcome) == IF pr.st = "fulfilled" THEN outcome ELSE pr

\* crypto.createHash("sha1").update(data).digest("hex"), without collisions.
Sha1(data) == [sha1 |-> data]

ChecksumMismatch == "Sample data does not match recorded checksum"

\* readWav with the digest comparison left out.
ReadWavCheckNoDigest(m, w) ==
  LET bytesPerSample == w.bitsPerSample \div 8
  IN  IF w.formatTag # 1 /\ w.formatTag # 65534
      THEN "Only PCM and EXTENSIBLE is supported"
      ELSE IF w.channels # 1 THEN "Only mono samples allowed"
      ELSE IF w.bitsPerSample % 8 # 0 THEN "We only deal in whole mytes"
      ELSE IF w.blockAlign # w.channels * bytesPerSample
      THEN "Unexpected block alignment"
      ELSE IF w.dataRate # w.sampleRate * w.blockAlign
      THEN "Unexpected data rate"
      ELSE IF w.bitsPerSample # 16 /\ w.bitsPerSample # 24
      THEN "Only 16 and 24 bit per sample allowed"
      ELSE IF w.bitsPerSample = 24 THEN "24bit samples not supported yet"
      ELSE IF m.length * w.blockAlign # Len(w.data)
      THEN "Sample length does not match recorded metadata"
      ELSE IF w.formatTag = 65534 /\ w.guid # "0100000000001000800000aa00389b71"
      THEN "Only PCM subtype is supported"
      ELSE "none"

\* The reaction of readWav to [meta, buf]: the first check that fails.
ReadWavCheck(m, w) ==
  LET bytesPerSample == w.bitsPerSample \div 8
  IN  IF w.formatTag # 1 /\ w.formatTag # 65534
      THEN "Only PCM and EXTENSIBLE is supported"
      ELSE IF w.channels # 1 THEN "Only mono samples allowed"
      ELSE IF w.bitsPerSample % 8 # 0 THEN "We only deal in whole mytes"
      ELSE IF w.blockAlign # w.channels * bytesPerSample
      THEN "Unexpected block alignment"
      ELSE IF w.dataRate # w.sampleRate * w.blockAlign
      THEN "Unexpected data rate"
      ELSE IF w.bitsPerSample # 16 /\ w.bitsPerSample # 24
      THEN "Only 16 and 24 bit per sample allowed"
      ELSE IF w.bitsPerSample = 24 THEN "24bit samples not supported yet"
      ELSE IF m.length * w.blockAlign # Len(w.data)
      THEN "Sample length does not match recorded metadata"
      ELSE IF w.formatTag = 65534 /\ w.guid # "0100000000001000800000aa00389b71"
      THEN "Only PCM subtype is supported"
      ELSE IF w.bitsPerSample = 16 /\ Sha1(w.data) # m.smpl
      THEN ChecksumMismatch
      ELSE "none"

\* YamlParse.sdta on the samples read: sdta24 when every sample has an sm24
\* digest, else sdta16 (whose length check readWav has made already).
SdtaOutcome ==
  IF \A n \in DOMAIN SdtaNames : metas[n].sm24
  THEN Rejected("Writing of the sm24 chunk isn't supported yet.")
  ELSE Fulfilled

ReadWavNode(n) == "readWav/" \o SdtaNames[n]

PromNames ==
  {"riff_INFO", "riff_sdta", "samples1", "instruments", "presets", "pdta",
   "sfbk", "compile"} \cup {ReadWavNode(n) : n \in DOMAIN SdtaNames}

\* A promise settles once.
SettleAs(p, k, v) == IF p[k].st = "pending" THEN [p EXCEPT ![k] = v] ELSE p

\* The reads a completed read starts: RIFF.yml names the chunks, whose
\* handlers read INFO, sdta and the three name lists; a name list starts
\* the reads of its descriptors, sdta.yml those of the wave files;
\* sample(name) is read once, for readWav or for samples2.
StartReads(ioS) ==
  [t \in IoTasks |->
     IF ioS[t] # "idle" THEN ioS[t]
     ELSE IF t \in {"INFO", "sdta", "phdr", "inst", "shdr"}
     THEN (IF ioS["RIFF"] = "ok" THEN "pending" ELSE "idle")
     ELSE IF t = "presets/"
     THEN (IF ioS["phdr"] = "ok" THEN "pending" ELSE "idle")
     ELSE IF t = "instruments/"
     THEN (IF ioS["inst"] = "ok" THEN "pending" ELSE "idle")
     ELSE IF \E n \in DOMAIN SdtaNames : t = WavFile(n)
     THEN (IF ioS["sdta"] = "ok" THEN "pending" ELSE "idle")
     ELSE IF \E n \in DOMAIN SdtaNames : t = SampleFile(n)
     THEN (IF ioS["sdta"] = "ok" \/ ioS["shdr"] = "ok" THEN "pending" ELSE "idle")
     ELSE ioS[t]]

\* The promises in the order their reactions run after a read has
\* completed, innermost first: readWav, riff_sdta, samples2, quad for
\* instruments and presets, riff_INFO, the pdta and sfbk lists of
\* riffDispatch, compile.
Reactions ==
  <<"readWav", "riff_sdta", "samples1", "instruments", "presets", "riff_INFO",
    "pdta", "sfbk", "compile">>

\* The reaction of one promise to the promises it waits for.
React(node, p, ioS) ==
  LET term  == ReadPromise(ioS, "term")
      metaP == [n \in DOMAIN SdtaNames |-> ReadPromise(ioS, SampleFile(n))]
  IN  CASE node = "readWav" ->
             [k \in PromNames |->
                IF p[k].st = "pending"
                   /\ (\E n \in DOMAIN SdtaNames : k = ReadWavNode(n))
                   /\ ioS["sdta"] = "ok"
                THEN LET n   == CHOOSE n \in DOMAIN SdtaNames : k = ReadWavNode(n)
                         chk == ReadWavCheck(metas[n], wavs[n])
                     IN  Then(PromiseAll(<<metaP[n], ReadPromise(ioS, WavFile(n))>>),
                              IF chk = "none" THEN Fulfilled ELSE Rejected(chk))
                ELSE p[k]]
        [] node = "riff_sdta" ->
             SettleAs(p, node,
               Then(ReadPromise(ioS, "sdta"),
                    Then(PromiseAll([n \in DOMAIN SdtaNames |-> p[ReadWavNode(n)]]),
                         SdtaOutcome)))
        [] node = "samples1" ->
             SettleAs(p, node,
               Then(ReadPromise(ioS, "shdr"),
                    PromiseAll(<<term>> \o metaP \o <<p["riff_sdta"]>>)))
        [] node = "instruments" ->
             SettleAs(p, node,
               Then(ReadPromise(ioS, "inst"),
                    Then(PromiseAll(<<term, ReadPromise(ioS, "instruments/")>>),
                         PromiseAll(<<p["samples1"]>>))))
        [] node = "presets" ->
             SettleAs(p, node,
               Then(ReadPromise(ioS, "phdr"),
                    Then(PromiseAll(<<term, ReadPromise(ioS, "presets/")>>),
                         PromiseAll(<<p["instruments"]>>))))
        [] node = "riff_INFO" ->
             SettleAs(p, node, ReadPromise(ioS, "INFO"))
        [] node = "pdta" ->
             SettleAs(p, node,
               Then(ReadPromise(ioS, "RIFF"),
                    PromiseAll(<<p["presets"], p["presets"], p["presets"],
                                 p["presets"], p["instruments"], p["instruments"],
                                 p["instruments"], p["instruments"],
                                 p["samples1"]>>)))
        [] node = "sfbk" ->
             SettleAs(p, node,
               Then(ReadPromise(ioS, "RIFF"),
                    PromiseAll(<<p["riff_INFO"], p["riff_sdta"], p["pdta"]>>)))
        [] node = "compile" ->
             SettleAs(p, node, Then(ReadPromise(ioS, "RIFF"), p["sfbk"]))

\* One round of reactions, from reaction k on.
RECURSIVE SettleFrom(_, _, _)
SettleFrom(p, ioS, k) ==
  IF k > Len(Reactions) THEN p
  ELSE CHOOSE r \in {SettleFrom(q, ioS, k + 1) : q \in {React(Reactions[k], p, ioS)}} :
         TRUE

Settle(p, ioS) == SettleFrom(p, ioS, 1)

(***************************************************************************)
(* SpecCompile: the main script calls compile() on a directory and writes  *)
(* the result; the reads complete in any order, each well or not.          *)
(***************************************************************************)
Pcm16(data) ==
  [ formatTag |-> 1, channels |-> 1, sampleRate |-> 1, dataRate |-> 2,
    blockAlign |-> 2, bitsPerSample |-> 16, data |-> data, guid |-> "" ]

\* Wave files: two 16 bit mono payloads of one point, one of two points, a
\* stereo file, a float file, and EXTENSIBLE files of the PCM and of
\* another subtype.
WavFiles ==
  { Pcm16(<<0, 0>>), Pcm16(<<1, 0>>), Pcm16(<<0, 0, 0, 0>>),
    [Pcm16(<<0, 0, 0, 0>>) EXCEPT !.channels = 2, !.blockAlign = 4,
                                  !.dataRate = 4],
    [Pcm16(<<0, 0>>) EXCEPT !.formatTag = 3],
    [Pcm16(<<0, 0>>) EXCEPT !.formatTag = 65534,
                            !.guid = "0100000000001000800000aa00389b71"],
    [Pcm16(<<0, 0>>) EXCEPT !.formatTag = 65534,
                            !.guid = "0300000000001000800000aa00389b71"] }

\* samples/<name>.yml: the sdta object of a silent sample of one point,
\* with an sm24 digest or without.
SampleMetas ==
  [ length : {1}, smpl : {Sha1(<<0, 0>>)}, sm24 : BOOLEAN ]

InitCompile ==
  /\ QuadIdle /\ GapIdle /\ BufIdle /\ ZoneIdle /\ RefIdle /\ DescIdle /\ TermIdle /\ PosIdle /\ NameIdle /\ DecIdle /\ RiffIdle /\ RangeIdle /\ PairIdle /\ MemoIdle /\ OrderIdle /\ GenIdle /\ InfoIdle
  /\ metas \in [DOMAIN SdtaNames -> SampleMetas]
  /\ wavs \in [DOMAIN SdtaNames -> WavFiles]
  /\ io = [t \in IoTasks |-> IF t \in {"term", "RIFF"} THEN "pending" ELSE "idle"]
  /\ prom = [k \in PromNames |-> Pending]
  /\ outfile = "idle"
  /\ status = [code |-> 2, err |-> ""]

\* The callback of fs.readFile for one of the reads, with the reactions
\* that follow it: the promises settle, the reads they lead to start, and
\* the main script reacts to compile(): writeFile, or status = 1.
ReadDone ==
  \E t \in IoTasks : \E r \in {"ok", "fail"} :
    /\ io # <<>>
    /\ io[t] = "pending"
    /\ \E io1 \in {StartReads([io EXCEPT ![t] = r])} :
       \E pr1 \in {Settle(prom, io1)} :
           /\ io' = io1
           /\ prom' = pr1
           /\ IF prom["compile"].st = "pending" /\ pr1["compile"].st = "fulfilled"
              THEN outfile' = "pending" /\ UNCHANGED status
              ELSE IF prom["compile"].st = "pending"
                      /\ pr1["compile"].st = "rejected"
              THEN /\ status' = [code |-> 1, err |-> pr1["compile"].why]
                   /\ UNCHANGED outfile
              ELSE UNCHANGED <<outfile, status>>
    /\ UNCHANGED <<metas, wavs>>
    /\ UNCHANGED quadVars
    /\ UNCHANGED gapVars
    /\ UNCHANGED bufVars
    /\ UNCHANGED zoneVars
    /\ UNCHANGED refVars
    /\ UNCHANGED descVars
    /\ UNCHANGED termVars
    /\ UNCHANGED posVars
    /\ UNCHANGED nameVars
    /\ UNCHANGED decVars
    /\ UNCHANGED riffVars
    /\ UNCHANGED rangeVars
    /\ UNCHANGED pairVars
    /\ UNCHANGED memoVars
    /\ UNCHANGED orderVars
    /\ UNCHANGED genVars
    /\ UNCHANGED infoVars

\* The callback of fs.writeFile: status = 0, or the error and status = 1.
WriteDone ==
  \E r \in {"ok", "fail"} :
    /\ outfile = "pending"
    /\ outfile' = r
    /\ status' = IF r = "ok" THEN [code |-> 0, err |-> ""]
                 ELSE [code |-> 1, err |-> "EACCES: out.sf2"]
    /\ UNCHANGED <<io, prom, metas, wavs>>
    /\ UNCHANGED quadVars
    /\ UNCHANGED gapVars
    /\ UNCHANGED bufVars
    /\ UNCHANGED zoneVars
    /\ UNCHANGED refVars
    /\ UNCHANGED descVars
    /\ UNCHANGED termVars
    /\ UNCHANGED posVars
    /\ UNCHANGED nameVars
    /\ UNCHANGED decVars
    /\ UNCHANGED riffVars
    /\ UNCHANGED rangeVars
    /\ UNCHANGED pairVars
    /\ UNCHANGED memoVars
    /\ UNCHANGED orderVars
    /\ UNCHANGED genVars
    /\ UNCHANGED infoVars

NextCompile == ReadDone \/ WriteDone

SpecCompile == InitCompile /\ [][NextCompile]_vars

(***************************************************************************)
(* Claims about compile().                                                 *)
(***************************************************************************)
Compiling == io # <<>>

\* A sample of sdta.yml whose recorded digest is not that of its 16 bit
\* payload.
Mismatch(n) ==
  wavs[n].bitsPerSample = 16 /\ Sha1(wavs[n].data) # metas[n].smpl

\* No read is under way: all callbacks have run.
Quiescent == \A t \in IoTasks : io[t] # "pending"

\* With such a sample compile() never fulfils, the output is never written,
\* the exit status is never 0, and once all reads are done compile() has
\* rejected.
NoOutput ==
  /\ prom["compile"].st # "fulfilled"
  /\ outfile = "idle"
  /\ status.code # 0
  /\ Quiescent => prom["compile"].st = "rejected" /\ status.code = 1

RefGens(fam) ==
  { [k |-> "pan", v |-> 1] } \cup
  { [k |-> NdxFields(fam).local, v |-> n] : n \in {"ra", "rb", "zz"} }

\* samples/<name>.yml of the k-th name of shdr.yml, with the position
\* sdta16() gave it: its link is a number, or the name of a sample.
RefSample(k, isName, link) ==
  [ achSampleName |-> RefNames[k], dwEnd |-> 4, dwStartloop |-> 1,
    dwEndloop |-> 3, dwSamplerRate |-> 44100, byOriginalPitch |-> 60,
    chPitchCorrection |-> 0, sfSampleType |-> 1, pos |-> 36 * (k - 1),
    linkIsName |-> isName, wSampleLink |-> link ]

\* The link names a descriptor may give; choice 0 is the number 0.
RefLinkNames == <<"ra", "rb", "zz">>

TermShdr ==
  [ achSampleName |-> "EOS", dwStart |-> 0, dwEnd |-> 0, dwStartloop |-> 0,
    dwEndloop |-> 0, dwSamplerRate |-> 0, byOriginalPitch |-> 0,
    chPitchCorrection |-> 0, wSampleLink |-> 0, sfSampleType |-> 0 ]

InitRefs ==
  /\ QuadIdle /\ GapIdle /\ BufIdle /\ ZoneIdle /\ CompIdle /\ DescIdle /\ TermIdle /\ PosIdle /\ NameIdle /\ DecIdle /\ RiffIdle /\ RangeIdle /\ PairIdle /\ MemoIdle /\ OrderIdle /\ GenIdle /\ InfoIdle
  /\ rfam \in {"p", "i"}
  /\ rgens \in SeqsUpTo(RefGens(rfam), MaxRefGens)
  /\ \E c \in [DOMAIN RefNames -> 0..Len(RefLinkNames)] :
       rsmps = [k \in DOMAIN RefNames |->
                  RefSample(k, c[k] # 0,
                            IF c[k] = 0 THEN 0 ELSE RefLinkNames[c[k]])]
  /\ rout = [quad |-> <<>>, shdr |-> <<>>]
  /\ rpc = "yaml"

\* presets() / instruments(): quad() on one entity with one zone of these
\* generators, up to the rows it gives RecordLayout.write.
ResolveGens ==
  /\ rpc = "yaml"
  /\ rout' = [rout EXCEPT !.quad =
       QuadRows(rfam,
                <<[NewEntity(rfam, 1) EXCEPT
                     !.zones = <<[ hasGens |-> TRUE, gens |-> rgens,
                                   hasMods |-> FALSE, mods |-> <<>> ]>>]>>,
                Terminators, RefNames, RefNames)]
  /\ rpc' = "quad"
  /\ UNCHANGED <<rfam, rgens, rsmps>>
  /\ UNCHANGED quadVars
  /\ UNCHANGED gapVars
  /\ UNCHANGED bufVars
  /\ UNCHANGED zoneVars
  /\ UNCHANGED compVars
  /\ UNCHANGED descVars
  /\ UNCHANGED termVars
  /\ UNCHANGED posVars
  /\ UNCHANGED nameVars
  /\ UNCHANGED decVars
  /\ UNCHANGED riffVars
  /\ UNCHANGED rangeVars
  /\ UNCHANGED pairVars
  /\ UNCHANGED memoVars
  /\ UNCHANGED orderVars
  /\ UNCHANGED genVars
  /\ UNCHANGED infoVars

\* samples1(): samples2() up to the rows it gives RecordLayout.shdr.write.
ResolveLinks ==
  /\ rpc = "quad"
  /\ rout' = [rout EXCEPT !.shdr =
       [err |-> "none", rows |-> Samples2Rows(rsmps, RefNames, TermShdr)]]
  /\ rpc' = "done"
  /\ UNCHANGED <<rfam, rgens, rsmps>>
  /\ UNCHANGED quadVars
  /\ UNCHANGED gapVars
  /\ UNCHANGED bufVars
  /\ UNCHANGED zoneVars
  /\ UNCHANGED compVars
  /\ UNCHANGED descVars
  /\ UNCHANGED termVars
  /\ UNCHANGED posVars
  /\ UNCHANGED nameVars
  /\ UNCHANGED decVars
  /\ UNCHANGED riffVars
  /\ UNCHANGED rangeVars
  /\ UNCHANGED pairVars
  /\ UNCHANGED memoVars
  /\ UNCHANGED orderVars
  /\ UNCHANGED genVars
  /\ UNCHANGED infoVars

NextRefs == ResolveGens \/ ResolveLinks

SpecRefs == InitRefs /\ [][NextRefs]_vars

\* A name that is in no name list is referred to.
UnknownGenName ==
  \E k \in 1..Len(rgens) :
    rgens[k].k = NdxFields(rfam).local /\ DictGet(RefNames, rgens[k].v) = Undefined

UnknownLinkName ==
  \E k \in 1..Len(rsmps) :
    rsmps[k].linkIsName /\ DictGet(RefNames, rsmps[k].wSampleLink) = Undefined

\* C11: a generator or link name that is in no name list makes the encoder
\* fail with an unknown-reference error, and no row with an undefined index
\* is handed to the record writer.
C11_UnknownReference ==
  /\ rpc \in {"quad", "done"} =>
       /\ UnknownGenName => rout.quad.err \notin {"none", "Invalid generator"}
       /\ rout.quad.err = "none" =>
            \A k \in 1..(Len(rout.quad.gen) - 1) :
              rout.quad.gen[k].sfGenOper \in {41, 53} =>
                rout.quad.gen[k].genAmount # Undefined
  /\ rpc = "done" =>
       /\ UnknownLinkName => rout.shdr.err # "none"
       /\ rout.shdr.err = "none" =>
            \A k \in 1..(Len(rout.shdr.rows) - 1) :
              rout.shdr.rows[k].wSampleLink # Undefined

(***************************************************************************)
(* SpecTerm: the last rows of the seven tables of a file are captured by   *)
(* the decoder's terminators(), written as term.yml, and appended by the   *)
(* encoder's quad() and samples2() to the tables it writes.                *)
(*                                                                         *)
(* The rows of the file are parsed rows: every cell holds the smallest,    *)
(* the largest or a high-bit value of its width, every name one of three   *)
(* strings.  term.yml carries integers and strings unchanged.              *)
(***************************************************************************)
TermTables == <<"phdr", "inst", "shdr", "pmod", "pgen", "imod", "igen">>

CellMax(name) ==
  IF name \in {"byOriginalPitch", "chPitchCorrection"} THEN 255
  ELSE IF name \in {"dwLibrary", "dwGenre", "dwMorphology", "dwStart", "dwEnd",
                    "dwStartloop", "dwEndloop", "dwSamplerRate"}
  THEN 2147483647
  ELSE 65535

\* The cells of the row of a table in variant c, and the row as
\* RecordLayout.parse returns it at position id.
TermCells(table, c) ==
  [n \in RowNames(table) |->
     IF n \in {"achPresetName", "achInstName", "achSampleName"}
     THEN (CASE c = 1 -> "EOT" [] c = 2 -> "" [] c = 3 -> "x y")
     ELSE (CASE c = 1 -> 0
             [] c = 2 -> CellMax(n)
             [] c = 3 -> CellMax(n) \div 2 + 2)]

ParsedRow(table, c, id) ==
  [WriteParse(table, <<TermCells(table, c)>>)[1] EXCEPT !.id = id]

Without(rec, names) == [n \in DOMAIN rec \ names |-> rec[n]]

\* The capture of the generator terminator with the amount read unsigned.
GenTerminatorUnsigned(g) ==
  [sfGenOper |-> g.sfGenOper, genAmount |-> g.genAmount.wAmount]

\* Object.assign({}, term, {genAmount: term.genAmount.shAmount}) of the last
\* Generator of pgen / igen
GenTerminator(g) ==
  [sfGenOper |-> g.sfGenOper, genAmount |-> g.genAmount.shAmount]

\* YamlGen.terminators(): f holds sf2.phdr.sf2Terminator,
\* sf2.inst.sf2Terminator, sf2.shdr.sf2Terminator and the last rows of
\* pmod, pgen, imod and igen.
YamlGenTerminators(f) ==
  [ phdr |-> Without(f.phdr, {"id", "wPresetBagNdx"}),
    inst |-> [achInstName |-> f.inst.achInstName],
    shdr |-> Without(f.shdr, {"id"}),
    pmod |-> Without(f.pmod, {"id"}),
    pgen |-> GenTerminator(GeneratorBuild(<<f.pgen>>)[1]),
    imod |-> Without(f.imod, {"id"}),
    igen |-> GenTerminator(GeneratorBuild(<<f.igen>>)[1]) ]

\* The descriptors the encoder reads next to term.yml: one entity with a
\* global zone and a local zone per family, two samples.
TermEntities(fam) == Build(fam, <<"E", "G", "g", "m", "Z", "r">>, 1, <<>>)

TermSamples == <<RefSample(1, FALSE, 0), RefSample(2, TRUE, "ra")>>

Last(s) == s[Len(s)]

InitTerm ==
  /\ QuadIdle /\ GapIdle /\ BufIdle /\ ZoneIdle /\ CompIdle /\ RefIdle /\ PosIdle /\ NameIdle /\ DecIdle /\ RiffIdle /\ RangeIdle /\ PairIdle /\ MemoIdle /\ OrderIdle /\ GenIdle /\ InfoIdle
  /\ DescIdle
  /\ \E c \in [DOMAIN TermTables -> 1..3], id \in 1..2 :
       tfile = [ phdr |-> ParsedRow("phdr", c[1], id),
                 inst |-> ParsedRow("inst", c[2], id),
                 shdr |-> ParsedRow("shdr", c[3], id),
                 pmod |-> ParsedRow("pmod", c[4], id),
                 pgen |-> ParsedRow("pgen", c[5], id),
                 imod |-> ParsedRow("imod", c[6], id),
                 igen |-> ParsedRow("igen", c[7], id) ]
  /\ tyml = <<>>
  /\ tenc = <<>>
  /\ tpc = "sf2"

\* writeYaml("term", this.terminators(), termKeys)
CaptureTerm ==
  /\ tpc = "sf2"
  /\ tyml' = YamlGenTerminators(tfile)
  /\ tpc' = "yaml"
  /\ UNCHANGED <<tfile, tenc>>
  /\ UNCHANGED quadVars
  /\ UNCHANGED gapVars
  /\ UNCHANGED bufVars
  /\ UNCHANGED zoneVars
  /\ UNCHANGED compVars
  /\ UNCHANGED refVars
  /\ UNCHANGED descVars
  /\ UNCHANGED posVars
  /\ UNCHANGED nameVars
  /\ UNCHANGED decVars
  /\ UNCHANGED riffVars
  /\ UNCHANGED rangeVars
  /\ UNCHANGED pairVars
  /\ UNCHANGED memoVars
  /\ UNCHANGED orderVars
  /\ UNCHANGED genVars
  /\ UNCHANGED infoVars

\* presets(), instruments() and samples2() with this.terminators read from
\* term.yml: the last row of every table handed to RecordLayout.write, as
\* it reads back.
AppendTerm ==
  /\ tpc = "yaml"
  /\ \E p \in {Quad("p", TermEntities("p"), tyml, RefNames, RefNames)} :
     \E i \in {Quad("i", TermEntities("i"), tyml, RefNames, RefNames)} :
     \E s \in {WriteParse("shdr", Samples2Rows(TermSamples, RefNames, tyml.shdr))} :
       tenc' = [ phdr |-> Last(p.hdr), pbag |-> Last(p.bag),
                 pmod |-> Last(p.mod), pgen |-> Last(p.gen),
                 inst |-> Last(i.hdr), ibag |-> Last(i.bag),
                 imod |-> Last(i.mod), igen |-> Last(i.gen),
                 shdr |-> Last(s) ]
  /\ tpc' = "written"
  /\ UNCHANGED <<tfile, tyml>>
  /\ UNCHANGED quadVars
  /\ UNCHANGED gapVars
  /\ UNCHANGED bufVars
  /\ UNCHANGED zoneVars
  /\ UNCHANGED compVars
  /\ UNCHANGED refVars
  /\ UNCHANGED descVars
  /\ UNCHANGED posVars
  /\ UNCHANGED nameVars
  /\ UNCHANGED decVars
  /\ UNCHANGED riffVars
  /\ UNCHANGED rangeVars
  /\ UNCHANGED pairVars
  /\ UNCHANGED memoVars
  /\ UNCHANGED orderVars
  /\ UNCHANGED genVars
  /\ UNCHANGED infoVars

NextTerm == CaptureTerm \/ AppendTerm

SpecTerm == InitTerm /\ [][NextTerm]_vars

(***************************************************************************)
(* Claims about the terminator rows.                                       *)
(***************************************************************************)
TermWritten == tpc = "written"

\* The fields of a table whose terminator value is recomputed.
IndexFields(table) ==
  CASE table = "phdr" -> {"id", "wPresetBagNdx"}
    [] table = "inst" -> {"id", "wInstBagNdx"}
    [] OTHER -> {"id"}

\* A field of a written row in the form term.yml holds it.
YamlField(row, n) == IF n = "genAmount" THEN row[n].shAmount ELSE row[n]

\* C13: for phdr, inst, shdr, pmod, pgen, imod and igen every non-index
\* field of the terminator row terminators() captured is the value of that
\* field in the last row the encoder writes for the table, and is the value
\* of the decoded file's terminator row; the bag-start index of the phdr and
\* inst terminators and the bag terminators are recomputed.
C13_TerminatorPreservation ==
  TermWritten =>
    /\ \A t \in DOMAIN TermTables :
         \A n \in RowNames(TermTables[t]) \ IndexFields(TermTables[t]) :
           /\ n \in DOMAIN tyml[TermTables[t]]
           /\ YamlField(tenc[TermTables[t]], n) = tyml[TermTables[t]][n]
           /\ tenc[TermTables[t]][n] = tfile[TermTables[t]][n]
    /\ tenc.phdr.wPresetBagNdx = 2 /\ tenc.inst.wInstBagNdx = 2
    /\ tenc.pbag.wGenNdx = 2 /\ tenc.pbag.wModNdx = 1
    /\ tenc.ibag.wInstGenNdx = 2 /\ tenc.ibag.wInstModNdx = 1

\* Terminator rows with a name, full-width cells and a generator amount
\* with the high bit set have been written back.
C13_Witness ==
  /\ TermWritten
  /\ tfile.phdr.achPresetName = "x y"
  /\ tfile.inst.achInstName = "EOT"
  /\ tfile.shdr.dwEnd = 2147483647
  /\ tfile.pgen.genAmount.shAmount < 0
  /\ tfile.igen.sfGenOper = 65535
  /\ tfile.pmod.modAmount < 0
  /\ tenc.pgen.genAmount.shAmount < 0

(***************************************************************************)
(* SpecPos: the encoder lays out the sample data (riff_sdta, sdta16) and   *)
(* builds the sample headers (samples2) from the positions the layout      *)
(* wrote into the memoized sample descriptors.                             *)
(*                                                                         *)
(* sdta.yml holds at most MaxPosList items: the names ra and rb, the name  *)
(* of a hidden segment, and gap markers; shdr.yml lists ra and rb, each at *)
(* most once, in either order, and only names sdta.yml places.             *)
(***************************************************************************)
MaxPosList == 3

PosNames == <<"ra", "rb", "ra_">>

PosLength(name) == CASE name = "ra" -> 4 [] name = "rb" -> 6 [] OTHER -> 2

\* Item codes: 1..3 a name of PosNames, 4 and 5 the markers {gap: 0} and
\* {gap: 64}.
PosItem(c) ==
  IF c <= 3
  THEN [ kind |-> "name", name |-> PosNames[c], length |-> PosLength(PosNames[c]),
         bits |-> 16, sm24 |-> FALSE ]
  ELSE [ kind |-> "gap", gap |-> IF c = 4 THEN 0 ELSE 64 ]

\* samples/<name>.yml
PosDescriptor(name) ==
  [ achSampleName |-> name, dwEnd |-> PosLength(name), dwStartloop |-> 1,
    dwEndloop |-> PosLength(name) - 1, dwSamplerRate |-> 44100,
    byOriginalPitch |-> 60, chPitchCorrection |-> 0, sfSampleType |-> 1,
    linkIsName |-> FALSE, wSampleLink |-> 0, pos |-> Undefined ]

ShdrLists == {<<>>, <<"ra">>, <<"rb">>, <<"ra", "rb">>, <<"rb", "ra">>}

Placed(yml, name) ==
  {i \in 1..Len(yml) : yml[i].kind = "name" /\ yml[i].name = name}

\* s.meta.pos = len, on the descriptor object sample(name) memoizes: the
\* position of the last placement of the name stays.
AssignPos(yml, pos, ms) ==
  [n \in DOMAIN ms |->
     IF Placed(yml, n) = {} THEN ms[n]
     ELSE LET last == CHOOSE i \in Placed(yml, n) : \A j \in Placed(yml, n) : j <= i
              nth  == Cardinality({i \in 1..last : yml[i].kind = "name"})
          IN  [ms[n] EXCEPT !.pos = pos[nth]]]

\* Promise.all([this.terminators, Promise.all(names.map(sample)),
\* this.riff_sdta()]) without the last one.
Samples2ReadyNoSdta(p) == p.term = "fulfilled" /\ p.smp = "fulfilled"

\* Promise.all([this.terminators, Promise.all(names.map(sample)),
\* this.riff_sdta()]) is fulfilled
Samples2Ready(p) ==
  p.term = "fulfilled" /\ p.smp = "fulfilled" /\ p.sdta = "fulfilled"

InitPos ==
  /\ QuadIdle /\ GapIdle /\ BufIdle /\ ZoneIdle /\ CompIdle /\ RefIdle /\ NameIdle /\ DecIdle /\ RiffIdle /\ RangeIdle /\ PairIdle /\ MemoIdle /\ OrderIdle /\ GenIdle /\ InfoIdle
  /\ DescIdle /\ TermIdle
  /\ \E c \in SeqsUpTo(1..5, MaxPosList) : pyml = [k \in DOMAIN c |-> PosItem(c[k])]
  /\ pshdr \in {l \in ShdrLists : \A k \in DOMAIN l : Placed(pyml, l[k]) # {}}
  /\ pmeta = [n \in {PosNames[k] : k \in DOMAIN PosNames} |-> PosDescriptor(n)]
  /\ penc = <<>>
  /\ pprom = [term |-> "pending", smp |-> "pending", sdta |-> "pending",
              samples2 |-> "pending"]
  /\ prows = <<>>

\* this.terminators = this.readYaml("term", defaults.term)
PosTermRead ==
  /\ pprom # <<>> /\ pprom.term = "pending"
  /\ pprom' = [pprom EXCEPT !.term = "fulfilled"]
  /\ UNCHANGED <<pyml, pshdr, pmeta, penc, prows>>
  /\ UNCHANGED quadVars
  /\ UNCHANGED gapVars
  /\ UNCHANGED bufVars
  /\ UNCHANGED zoneVars
  /\ UNCHANGED compVars
  /\ UNCHANGED refVars
  /\ UNCHANGED descVars
  /\ UNCHANGED termVars
  /\ UNCHANGED nameVars
  /\ UNCHANGED decVars
  /\ UNCHANGED riffVars
  /\ UNCHANGED rangeVars
  /\ UNCHANGED pairVars
  /\ UNCHANGED memoVars
  /\ UNCHANGED orderVars
  /\ UNCHANGED genVars
  /\ UNCHANGED infoVars

\* Promise.all(names.map(name => this.sample(name))) of samples2
PosSamplesRead ==
  /\ pprom # <<>> /\ pprom.smp = "pending"
  /\ pprom' = [pprom EXCEPT !.smp = "fulfilled"]
  /\ UNCHANGED <<pyml, pshdr, pmeta, penc, prows>>
  /\ UNCHANGED quadVars
  /\ UNCHANGED gapVars
  /\ UNCHANGED bufVars
  /\ UNCHANGED zoneVars
  /\ UNCHANGED compVars
  /\ UNCHANGED refVars
  /\ UNCHANGED descVars
  /\ UNCHANGED termVars
  /\ UNCHANGED nameVars
  /\ UNCHANGED decVars
  /\ UNCHANGED riffVars
  /\ UNCHANGED rangeVars
  /\ UNCHANGED pairVars
  /\ UNCHANGED memoVars
  /\ UNCHANGED orderVars
  /\ UNCHANGED genVars
  /\ UNCHANGED infoVars

\* riff_sdta(): the wave files are read and sdta() lays them out; sdta16
\* writes the position of each sample into its descriptor.
LayoutSdta ==
  /\ pprom # <<>> /\ pprom.sdta = "pending"
  /\ penc' = RiffSdta(pyml)
  /\ IF penc'.err = "none"
     THEN /\ pmeta' = AssignPos(pyml, penc'.pos, pmeta)
          /\ pprom' = [pprom EXCEPT !.sdta = "fulfilled"]
     ELSE /\ pmeta' = pmeta
          /\ pprom' = [pprom EXCEPT !.sdta = "rejected"]
  /\ UNCHANGED <<pyml, pshdr, prows>>
  /\ UNCHANGED quadVars
  /\ UNCHANGED gapVars
  /\ UNCHANGED bufVars
  /\ UNCHANGED zoneVars
  /\ UNCHANGED compVars
  /\ UNCHANGED refVars
  /\ UNCHANGED descVars
  /\ UNCHANGED termVars
  /\ UNCHANGED nameVars
  /\ UNCHANGED decVars
  /\ UNCHANGED riffVars
  /\ UNCHANGED rangeVars
  /\ UNCHANGED pairVars
  /\ UNCHANGED memoVars
  /\ UNCHANGED orderVars
  /\ UNCHANGED genVars
  /\ UNCHANGED infoVars

\* samples2(), the callback: the rows of the names of shdr.yml, then the
\* terminator.
BuildHeaders ==
  /\ pprom # <<>> /\ pprom.samples2 = "pending"
  /\ Samples2Ready(pprom)
  /\ prows' = Samples2Rows([k \in DOMAIN pshdr |-> pmeta[pshdr[k]]], pshdr,
                           TermShdr)
  /\ pprom' = [pprom EXCEPT !.samples2 = "fulfilled"]
  /\ UNCHANGED <<pyml, pshdr, pmeta, penc>>
  /\ UNCHANGED quadVars
  /\ UNCHANGED gapVars
  /\ UNCHANGED bufVars
  /\ UNCHANGED zoneVars
  /\ UNCHANGED compVars
  /\ UNCHANGED refVars
  /\ UNCHANGED descVars
  /\ UNCHANGED termVars
  /\ UNCHANGED nameVars
  /\ UNCHANGED decVars
  /\ UNCHANGED riffVars
  /\ UNCHANGED rangeVars
  /\ UNCHANGED pairVars
  /\ UNCHANGED memoVars
  /\ UNCHANGED orderVars
  /\ UNCHANGED genVars
  /\ UNCHANGED infoVars

\* Promise.all rejects when riff_sdta() does: the callback never runs.
RejectHeaders ==
  /\ pprom # <<>> /\ pprom.samples2 = "pending"
  /\ pprom.sdta = "rejected"
  /\ pprom' = [pprom EXCEPT !.samples2 = "rejected"]
  /\ UNCHANGED <<pyml, pshdr, pmeta, penc, prows>>
  /\ UNCHANGED quadVars
  /\ UNCHANGED gapVars
  /\ UNCHANGED bufVars
  /\ UNCHANGED zoneVars
  /\ UNCHANGED compVars
  /\ UNCHANGED refVars
  /\ UNCHANGED descVars
  /\ UNCHANGED termVars
  /\ UNCHANGED nameVars
  /\ UNCHANGED decVars
  /\ UNCHANGED riffVars
  /\ UNCHANGED rangeVars
  /\ UNCHANGED pairVars
  /\ UNCHANGED memoVars
  /\ UNCHANGED orderVars
  /\ UNCHANGED genVars
  /\ UNCHANGED infoVars

NextPos ==
  PosTermRead \/ PosSamplesRead \/ LayoutSdta \/ BuildHeaders \/ RejectHeaders

SpecPos == InitPos /\ [][NextPos]_vars

(***************************************************************************)
(* Claims about the rebuilt sample offsets.                                *)
(***************************************************************************)
HeadersBuilt == pprom # <<>> /\ pprom.samples2 = "fulfilled"

RECURSIVE PointsBefore(_, _)
PointsBefore(bufs, j) ==
  IF j <= 1 THEN 0 ELSE bufs[j - 1].bytes \div 2 + PointsBefore(bufs, j - 1)

\* The offset, in sample points, of the payload of a name in the buffers
\* sdta16() returned (of its last payload, if the name is placed twice).
PayloadOffset(name) ==
  LET D == {j \in 1..Len(penc.samples) :
              penc.samples[j].kind = "data" /\ penc.samples[j].name = name}
  IN  PointsBefore(penc.samples, CHOOSE j \in D : \A i \in D : i <= j)

\* C14: for every name of shdr.yml the row samples2() emits has dwStart at
\* the offset where sdta16() placed the payload of that sample, and dwEnd,
\* dwStartloop and dwEndloop at that offset plus the descriptor's relative
\* values; rows exist only once the layout has assigned the positions.
C14_RebuiltSampleOffsets ==
  /\ (pprom # <<>> /\ prows # <<>>) =>
       /\ pprom.sdta = "fulfilled"
       /\ \A k \in DOMAIN pshdr : pmeta[pshdr[k]].pos # Undefined
  /\ HeadersBuilt =>
       /\ Len(prows) = Len(pshdr) + 1
       /\ \A k \in DOMAIN pshdr :
            LET d   == PosDescriptor(pshdr[k])
                off == PayloadOffset(pshdr[k])
            IN  /\ prows[k].achSampleName = pshdr[k]
                /\ prows[k].dwStart = off
                /\ prows[k].dwEnd = off + d.dwEnd
                /\ prows[k].dwStartloop = off + d.dwStartloop
                /\ prows[k].dwEndloop = off + d.dwEndloop

\* rb, a marker of 64 and ra were laid out, and the headers of ra and rb
\* were built: ra starts after rb and a gap of 64 points.
C14_Witness ==
  /\ HeadersBuilt
  /\ Len(pyml) = 3 /\ pyml[1].kind = "name" /\ pyml[1].name = "rb"
  /\ pyml[2].kind = "gap" /\ pyml[2].gap = 64
  /\ pshdr = <<"ra", "rb">>
  /\ prows[1].dwStart = 70 /\ prows[1].dwEnd = 74
  /\ prows[2].dwStart = 0

(***************************************************************************)
(* SpecNames: safeNames() turns the names of a table's rows into file      *)
(* names.  A name is a sequence of characters; Nul stands for the          *)
(* character with code 0.                                                  *)
(***************************************************************************)
MaxNames == 3

Nul == "NUL"

\* [a-zA-Z0-9_\-], as far as the names used here go
SafeChars == {"a", "b", "A", "B", "1", "2", "_", "-"}

\* .replace(/\0[^]*/, "")
RECURSIVE CutNul(_, _)
CutNul(s, n) ==
  IF n > Len(s) \/ s[n] = Nul THEN SubSeq(s, 1, n - 1) ELSE CutNul(s, n + 1)

\* .replace(/[^a-zA-Z0-9_\-]+/g, "_")
RECURSIVE ReplaceUnsafe(_, _, _)
ReplaceUnsafe(s, n, acc) ==
  IF n > Len(s) THEN acc
  ELSE IF s[n] \in SafeChars THEN ReplaceUnsafe(s, n + 1, Append(acc, s[n]))
  ELSE IF n > 1 /\ s[n - 1] \notin SafeChars THEN ReplaceUnsafe(s, n + 1, acc)
  ELSE ReplaceUnsafe(s, n + 1, Append(acc, "_"))

\* .replace(/^_/, "").replace(/_$/, "")
StripEnds(s) ==
  LET t == IF Len(s) > 0 /\ s[1] = "_" THEN Tail(s) ELSE s
  IN  IF Len(t) > 0 /\ t[Len(t)] = "_" THEN SubSeq(t, 1, Len(t) - 1) ELSE t

SafeName(str) == StripEnds(ReplaceUnsafe(CutNul(str, 1), 1, <<>>))

\* s.toLowerCase()
ToLowerCase(s) ==
  [k \in DOMAIN s |-> CASE s[k] = "A" -> "a" [] s[k] = "B" -> "b" [] OTHER -> s[k]]

\* "_" + j
RECURSIVE Digits(_)
Digits(j) ==
  LET d == <<"0", "1", "2", "3", "4", "5", "6", "7", "8", "9">>[(j % 10) + 1]
  IN  IF j < 10 THEN <<d>> ELSE Append(Digits(j \div 10), d)

Suffix(j) == <<"_">> \o Digits(j)

\* for (let n of lc) if (once.has(n)) twice.add(n); else once.add(n);
RECURSIVE OnceTwice(_, _, _, _)
OnceTwice(lc, n, once, twice) ==
  IF n > Len(lc) THEN [once |-> once, twice |-> twice]
  ELSE IF lc[n] \in once THEN OnceTwice(lc, n + 1, once, twice \cup {lc[n]})
  ELSE OnceTwice(lc, n + 1, once \cup {lc[n]}, twice)

\* The suffix search that always answers 1.
FirstFreeOne(once, base, j) == 1

\* let j = 1; while (once.has(lc[i] + "_" + j)) ++j;
RECURSIVE FirstFree(_, _, _)
FirstFree(once, base, j) ==
  IF base \o Suffix(j) \in once THEN FirstFree(once, base, j + 1) ELSE j

\* for (let i = 0; i < res.length; ++i) if (twice.has(lc[i])) { ... }
RECURSIVE SafeNamesLoop(_, _, _, _, _)
SafeNamesLoop(res, lc, once, twice, i) ==
  IF i > Len(res) THEN res
  ELSE IF lc[i] \in twice
  THEN LET j == FirstFree(once, lc[i], 1)
       IN  SafeNamesLoop([res EXCEPT ![i] = @ \o Suffix(j)], lc,
                         once \cup {lc[i] \o Suffix(j)}, twice, i + 1)
  ELSE SafeNamesLoop(res, lc, once, twice, i + 1)

SafeNames(names) ==
  LET res == [k \in DOMAIN names |-> SafeName(names[k])]
      lc  == [k \in DOMAIN res |-> ToLowerCase(res[k])]
      ot  == OnceTwice(lc, 1, {}, {})
  IN  SafeNamesLoop(res, lc, ot.once, ot.twice, 1)

\* The names a table may hold: plain, differing in case only, with unsafe
\* characters, cut by a character 0, empty after sanitizing, and names that
\* look like suffixed ones.
RawNames ==
  { <<"a">>, <<"A">>, <<"a", " ">>, <<"a", Nul, "b">>, <<" ", "#">>,
    <<"a", "_", "1">>, <<"A", "_", "2">>, <<"a", " ", "#", "1">>, <<"b", "-">> }

InitNames ==
  /\ QuadIdle /\ GapIdle /\ BufIdle /\ ZoneIdle /\ CompIdle /\ RefIdle /\ DecIdle /\ RiffIdle /\ RangeIdle /\ PairIdle /\ MemoIdle /\ OrderIdle /\ GenIdle /\ InfoIdle
  /\ DescIdle /\ TermIdle /\ PosIdle
  /\ names0 \in SeqsUpTo(RawNames, MaxNames)
  /\ fnames = <<>>
  /\ npc = "sf2"

\* this.presets = this.safeNames(this.sf2.phdr.map(i => i.achPresetName))
\* (likewise instruments and samples)
MakeNames ==
  /\ npc = "sf2"
  /\ fnames' = SafeNames(names0)
  /\ npc' = "named"
  /\ UNCHANGED names0
  /\ UNCHANGED quadVars
  /\ UNCHANGED gapVars
  /\ UNCHANGED bufVars
  /\ UNCHANGED zoneVars
  /\ UNCHANGED compVars
  /\ UNCHANGED refVars
  /\ UNCHANGED descVars
  /\ UNCHANGED termVars
  /\ UNCHANGED posVars
  /\ UNCHANGED decVars
  /\ UNCHANGED riffVars
  /\ UNCHANGED rangeVars
  /\ UNCHANGED pairVars
  /\ UNCHANGED memoVars
  /\ UNCHANGED orderVars
  /\ UNCHANGED genVars
  /\ UNCHANGED infoVars

NextNames == MakeNames

SpecNames == InitNames /\ [][NextNames]_vars

(***************************************************************************)
(* Claims about the file names.                                            *)
(***************************************************************************)
Named == npc = "named"

Lower(k) == ToLowerCase(SafeName(names0[k]))

Collides(k) == \E i \in DOMAIN names0 : i # k /\ Lower(i) = Lower(k)

\* C15: the list safeNames() returns has the length and order of its input;
\* its entries differ pairwise without regard to case; an entry whose
\* sanitized name collides with no other is the sanitized name; a colliding
\* entry is its sanitized name followed by "_" and a positive integer, the
\* entries of one name numbered upwards in input order.
C15_FileNameUniqueness ==
  Named =>
    /\ Len(fnames) = Len(names0)
    /\ \A i, k \in DOMAIN fnames :
         i # k => ToLowerCase(fnames[i]) # ToLowerCase(fnames[k])
    /\ \A k \in DOMAIN names0 :
         IF Collides(k)
         THEN \E j \in 1..(2 * Len(names0)) :
                fnames[k] = SafeName(names0[k]) \o Suffix(j)
         ELSE fnames[k] = SafeName(names0[k])
    /\ \A i, k \in DOMAIN names0 :
         (i < k /\ Lower(i) = Lower(k)) =>
           \E ji, jk \in 1..(2 * Len(names0)) :
             /\ ji < jk
             /\ fnames[i] = SafeName(names0[i]) \o Suffix(ji)
             /\ fnames[k] = SafeName(names0[k]) \o Suffix(jk)

\* "a", "A" and "a_1": the first two collide, and the suffix 1 is taken.
C15_Witness ==
  /\ Named
  /\ names0 = << <<"a">>, <<"A">>, <<"a", "_", "1">> >>
  /\ fnames = << <<"a", "_", "2">>, <<"A", "_", "3">>, <<"a", "_", "1">> >>

(***************************************************************************)
(* SpecDecode: new YamlGen(sf2, dir) runs its conversion steps in order,   *)
(* each output file handed to writeFile() as soon as its content exists;   *)
(* the writes complete later, at most WriteLimit of them in flight.        *)
(*                                                                         *)
(* The binary has or lacks linkable tables and an INFO chunk, and has up   *)
(* to MaxDecSamples sample headers with distinct starts, each with a link  *)
(* index inside or outside the sample table.                               *)
(***************************************************************************)
MaxDecSamples == 2

\* if (this.writing >= 12)
WriteLimit == 12

\* YamlGen.sample(s), the link test: s.wSampleLink !== s.id &&
\* this.sf2.shdr[s.wSampleLink].wSampleLink === s.id reads a property of
\* undefined when the index is outside the table.
SampleThrows(hdrs, k) ==
  /\ hdrs[k].wSampleLink # k - 1
  /\ hdrs[k].wSampleLink + 1 \notin DOMAIN hdrs

\* YamlGen.sdta(), the calls of writeFile: seq[0].start throws on an empty
\* table; per segment writeWav, then sample(s.shdr), then writeYaml.
RECURSIVE SdtaCalls(_, _, _)
SdtaCalls(hdrs, k, files) ==
  IF Len(hdrs) = 0 THEN [err |-> "TypeError: seq[0]", files |-> files]
  ELSE IF k > Len(hdrs) THEN [err |-> "none", files |-> files]
  ELSE LET name == "s" \o ToString(k - 1)
       IN  IF SampleThrows(hdrs, k)
           THEN [ err |-> "TypeError: shdr[wSampleLink]",
                  files |-> Append(files, "wav/" \o name \o ".wav") ]
           ELSE SdtaCalls(hdrs, k + 1,
                  files \o << "wav/" \o name \o ".wav",
                              "samples/" \o name \o ".yml" >>)

\* The constructor up to its end or to the first exception: the files
\* writeFile() is called for.
ConstructorCalls(f) ==
  IF ~f.tablesOk THEN [err |-> "Failed to link", files |-> <<>>]
  ELSE IF ~f.hasInfo
  THEN [err |-> "TypeError: info.chunks", files |-> <<"RIFF.yml">>]
  ELSE LET s == SdtaCalls(f.shdr, 1, <<"RIFF.yml", "INFO.yml">>)
       IN  IF s.err # "none" THEN s
           ELSE [ err |-> "none",
                  files |-> s.files \o
                    << "sdta.yml", "phdr.yml", "inst.yml", "shdr.yml",
                       "term.yml", "presets/p0.yml", "instruments/i0.yml" >> ]

\* A test that lets one write more start.
MustQueueOver(w) == w > WriteLimit

\* if (this.writing >= 12)
MustQueue(w) == w >= WriteLimit

\* A shift that takes the request queued last.
QueueShiftLast(q) == [q |-> q[Len(q)], rest |-> SubSeq(q, 1, Len(q) - 1)]

\* const q = this.writeQueue.shift()
QueueShift(q) == [q |-> Head(q), rest |-> Tail(q)]

\* writeFile(file, buf) for each call in turn, no write completing in
\* between: the first WriteLimit are started, the others queued.
StartedOf(files) == Min(Len(files), WriteLimit)

QueuedOf(files) == SubSeq(files, StartedOf(files) + 1, Len(files))

InitDecode ==
  /\ QuadIdle /\ GapIdle /\ BufIdle /\ ZoneIdle /\ CompIdle /\ RefIdle /\ RiffIdle /\ RangeIdle /\ PairIdle /\ MemoIdle /\ OrderIdle /\ GenIdle /\ InfoIdle
  /\ DescIdle /\ TermIdle /\ PosIdle /\ NameIdle
  /\ \E n \in 0..MaxDecSamples :
     \E l \in [1..n -> 0..MaxDecSamples + 1] :
     \E ok \in BOOLEAN, info \in BOOLEAN :
       dfile = [ tablesOk |-> ok, hasInfo |-> info,
                 shdr |-> [k \in 1..n |-> [id |-> k - 1, wSampleLink |-> l[k]]] ]
  /\ dcalls = <<>>
  /\ wstarted = <<>>
  /\ writing = 0
  /\ writeQueue = <<>>
  /\ dstatus = "read"

\* new YamlGen(sf2, dir): the whole constructor; an exception it throws is
\* not caught and ends the process.
Construct ==
  /\ dstatus = "read"
  /\ \E r \in {ConstructorCalls(dfile)} :
       /\ dcalls' = r.files
       /\ wstarted' = SubSeq(r.files, 1, StartedOf(r.files))
       /\ writing' = StartedOf(r.files)
       /\ writeQueue' = QueuedOf(r.files)
       /\ dstatus' = IF r.err = "none" THEN "converted" ELSE "failed"
  /\ UNCHANGED dfile
  /\ UNCHANGED quadVars
  /\ UNCHANGED gapVars
  /\ UNCHANGED bufVars
  /\ UNCHANGED zoneVars
  /\ UNCHANGED compVars
  /\ UNCHANGED refVars
  /\ UNCHANGED descVars
  /\ UNCHANGED termVars
  /\ UNCHANGED posVars
  /\ UNCHANGED nameVars
  /\ UNCHANGED riffVars
  /\ UNCHANGED rangeVars
  /\ UNCHANGED pairVars
  /\ UNCHANGED memoVars
  /\ UNCHANGED orderVars
  /\ UNCHANGED genVars
  /\ UNCHANGED infoVars

\* The callback of fs.writeFile: this.writing--, and the first queued file
\* is written.
WriteCompleted ==
  /\ dstatus \in {"converted", "writer"}
  /\ writing > 0
  /\ IF writing - 1 < WriteLimit /\ Len(writeQueue) > 0
     THEN LET s == QueueShift(writeQueue)
          IN  /\ writeQueue' = s.rest
              /\ IF MustQueue(writing - 1)
                 THEN writing' = writing - 1 /\ wstarted' = wstarted
                 ELSE writing' = writing /\ wstarted' = Append(wstarted, s.q)
     ELSE /\ writing' = writing - 1
          /\ UNCHANGED <<writeQueue, wstarted>>
  /\ UNCHANGED <<dfile, dcalls, dstatus>>
  /\ UNCHANGED quadVars
  /\ UNCHANGED gapVars
  /\ UNCHANGED bufVars
  /\ UNCHANGED zoneVars
  /\ UNCHANGED compVars
  /\ UNCHANGED refVars
  /\ UNCHANGED descVars
  /\ UNCHANGED termVars
  /\ UNCHANGED posVars
  /\ UNCHANGED nameVars
  /\ UNCHANGED riffVars
  /\ UNCHANGED rangeVars
  /\ UNCHANGED pairVars
  /\ UNCHANGED memoVars
  /\ UNCHANGED orderVars
  /\ UNCHANGED genVars
  /\ UNCHANGED infoVars

NextDecode == Construct \/ WriteCompleted

SpecDecode == InitDecode /\ [][NextDecode]_vars

(***************************************************************************)
(* Claims about a failed decode.                                           *)
(***************************************************************************)
DecodeFailed == dstatus = "failed"

\* C16: when the conversion fails at any step, no write of an output file
\* has been started before the failure.
C16_AllOrNothingDecode ==
  DecodeFailed => (dcalls = <<>> /\ writing = 0)

\* A failure in the tables leaves no write started; any later failure comes
\* after the write of RIFF.yml was started.
C16_WritesBeforeFailure ==
  DecodeFailed =>
    IF dfile.tablesOk
    THEN Len(dcalls) >= 1 /\ dcalls[1] = "RIFF.yml" /\ writing = Len(dcalls)
    ELSE dcalls = <<>> /\ writing = 0


(***************************************************************************)
(* SpecWrite: writeFile() on its own, called up to MaxWrites times by any  *)
(* caller while the writes it started complete in between.                 *)
(***************************************************************************)
MaxWrites == 15

InitWrite ==
  /\ QuadIdle /\ GapIdle /\ BufIdle /\ ZoneIdle /\ CompIdle /\ RefIdle /\ MemoIdle /\ OrderIdle /\ GenIdle /\ InfoIdle
  /\ DescIdle /\ TermIdle /\ PosIdle /\ NameIdle /\ RiffIdle /\ RangeIdle
  /\ PairIdle
  /\ dfile = <<>>
  /\ dcalls = <<>>
  /\ wstarted = <<>>
  /\ writing = 0
  /\ writeQueue = <<>>
  /\ dstatus = "writer"

\* writeFile(file, buf)
WriteFile ==
  /\ dstatus = "writer"
  /\ Len(dcalls) < MaxWrites
  /\ \E file \in {"f" \o ToString(Len(dcalls) + 1)} :
       /\ dcalls' = Append(dcalls, file)
       /\ IF MustQueue(writing)
          THEN /\ writeQueue' = Append(writeQueue, file)
               /\ UNCHANGED <<writing, wstarted>>
          ELSE /\ writing' = writing + 1
               /\ wstarted' = Append(wstarted, file)
               /\ UNCHANGED writeQueue
  /\ UNCHANGED <<dfile, dstatus>>
  /\ UNCHANGED quadVars
  /\ UNCHANGED gapVars
  /\ UNCHANGED bufVars
  /\ UNCHANGED zoneVars
  /\ UNCHANGED compVars
  /\ UNCHANGED refVars
  /\ UNCHANGED descVars
  /\ UNCHANGED termVars
  /\ UNCHANGED posVars
  /\ UNCHANGED nameVars
  /\ UNCHANGED riffVars
  /\ UNCHANGED rangeVars
  /\ UNCHANGED pairVars
  /\ UNCHANGED memoVars
  /\ UNCHANGED orderVars
  /\ UNCHANGED genVars
  /\ UNCHANGED infoVars

NextWrite == WriteFile \/ WriteCompleted

SpecWrite == InitWrite /\ [][NextWrite]_vars

\* Every write that was started completes in the end.
SpecWriteFair == SpecWrite /\ WF_vars(WriteCompleted)

(***************************************************************************)
(* Claims about writeFile.                                                 *)
(***************************************************************************)
\* C23: the writes in flight are between 0 and 12; a write requested while
\* 12 are in flight is queued and not started; the queue holds something
\* only while 12 writes are in flight.
C23_BoundedFanOut ==
  /\ writing \in 0..WriteLimit
  /\ writeQueue # <<>> => writing = WriteLimit
  /\ Len(wstarted) + Len(writeQueue) = Len(dcalls)
  /\ \A k \in 1..Len(writeQueue) :
       \A j \in 1..Len(wstarted) : wstarted[j] # writeQueue[k]

\* Fifteen requests, two of the earlier writes completed: twelve writes in
\* flight and one request still in the queue.
C23_Witness ==
  /\ dstatus = "writer"
  /\ Len(dcalls) = 15
  /\ writing = WriteLimit
  /\ Len(wstarted) = 14
  /\ writeQueue = <<"f15">>

\* C24: when every started write completes, every requested write is
\* started in the end, the writes are started in the order of their
\* requests, and the writer comes to rest with an empty queue and no write
\* in flight.
C24_QueueLiveness ==
  /\ \A n \in 1..MaxWrites :
       (Len(dcalls) >= n) ~> (Len(wstarted) >= n /\ wstarted[n] = dcalls[n])
  /\ [](wstarted \o writeQueue = dcalls)
  /\ <>[](writing = 0 /\ writeQueue = <<>>)

\* All requests made, all writes started and completed.
C24_Witness ==
  /\ dstatus = "writer"
  /\ Len(dcalls) = MaxWrites
  /\ wstarted = dcalls
  /\ writing = 0 /\ writeQueue = <<>>

(***************************************************************************)
(* SpecRiff: new RIFF(buf) lists the chunks of a buffer, containers        *)
(* (RIFF, LIST) parsed in turn.  Bytes are numbers, identifiers their      *)
(* ASCII codes.                                                            *)
(*                                                                         *)
(* A buffer is made of at most MaxChunks pieces (plain chunks of even and  *)
(* odd length, with and without pad byte or with a length that overruns,   *)
(* containers with and without a type and with whole and broken children)  *)
(* and loses up to MaxCut bytes at its end.                                *)
(***************************************************************************)
MaxChunks == 2
MaxCut == 3

RiffId == <<82, 73, 70, 70>>
ListId == <<76, 73, 83, 84>>

\* buf.readUInt32LE(pos)
ReadUInt32LE(buf, pos) ==
  buf[pos + 1] + 256 * buf[pos + 2] + 65536 * buf[pos + 3]
    + 16777216 * buf[pos + 4]

\* id.replace(/ +$/, "")
RECURSIVE TrimSpaces(_)
TrimSpaces(id) ==
  IF Len(id) > 0 /\ id[Len(id)] = 32 THEN TrimSpaces(SubSeq(id, 1, Len(id) - 1))
  ELSE id

\* An advance that forgets the pad byte.
RiffAdvanceNoPad(len) == 8 + len

\* pos += 8 + len + (len & 1)
RiffAdvance(len) == 8 + len + (len % 2)

RECURSIVE RiffChunks(_, _, _)
RECURSIVE ChunkHandler(_, _)

\* chunk_RIFF / chunk_LIST for a container, new Chunk(id, data) otherwise
ChunkHandler(id, data) ==
  IF id \in {RiffId, ListId}
  THEN IF Len(data) < 4 THEN [err |-> "Missing type name"]
       ELSE LET sub == RiffChunks(SubSeq(data, 5, Len(data)), 0, <<>>)
            IN  IF sub.err # "none" THEN [err |-> sub.err]
                ELSE [ err |-> "none",
                       chunk |-> [ container |-> TRUE,
                                   id |-> TrimSpaces(SubSeq(data, 1, 4)),
                                   data |-> SubSeq(data, 5, Len(data)),
                                   chunks |-> sub.chunks,
                                   isList |-> id = ListId ] ]
  ELSE [ err |-> "none",
         chunk |-> [container |-> FALSE, id |-> id, data |-> data] ]

\* RIFF constructor: while (pos < buf.length) { ... }
RiffChunks(buf, pos, chunks) ==
  IF pos >= Len(buf) THEN [err |-> "none", chunks |-> chunks]
  ELSE IF pos + 8 > Len(buf) THEN [err |-> "Incomplete chunk header"]
  ELSE LET len == ReadUInt32LE(buf, pos + 4)
       IN  IF pos + 8 + len > Len(buf) THEN [err |-> "Incomplete chunk body"]
           ELSE LET res == ChunkHandler(TrimSpaces(SubSeq(buf, pos + 1, pos + 4)),
                                        SubSeq(buf, pos + 9, pos + 8 + len))
                IN  IF res.err # "none" THEN [err |-> res.err]
                    ELSE RiffChunks(buf, pos + RiffAdvance(len),
                                    Append(chunks, res.chunk))

\* new RIFF(buf)
RiffNew(buf) == RiffChunks(buf, 0, <<>>)

\* The bytes of a chunk header and of the pieces.
ChunkHead(id, len) == id \o <<len % 256, len \div 256, 0, 0>>

Pieces ==
  LET ab   == <<97, 98, 32, 32>>
      type == <<115, 102, 32, 32>>
  IN  << ChunkHead(ab, 0),
         ChunkHead(ab, 1) \o <<7, 0>>,
         ChunkHead(ab, 1) \o <<7>>,
         ChunkHead(ab, 2) \o <<7, 8>>,
         ChunkHead(ab, 3) \o <<7, 8>>,
         ChunkHead(ListId, 4) \o type,
         ChunkHead(ListId, 2) \o <<1, 2>>,
         ChunkHead(RiffId, 14) \o type \o ChunkHead(ab, 2) \o <<7, 8>>,
         ChunkHead(ListId, 7) \o type \o <<1, 2, 3, 0>> >>

RECURSIVE Concat(_, _)
Concat(c, n) == IF n > Len(c) THEN <<>> ELSE Pieces[c[n]] \o Concat(c, n + 1)

InitRiff ==
  /\ QuadIdle /\ GapIdle /\ BufIdle /\ ZoneIdle /\ CompIdle /\ RefIdle /\ RangeIdle /\ PairIdle /\ MemoIdle /\ OrderIdle /\ GenIdle /\ InfoIdle
  /\ DescIdle /\ TermIdle /\ PosIdle /\ NameIdle /\ DecIdle
  /\ \E c \in SeqsUpTo(DOMAIN Pieces, MaxChunks), cut \in 0..MaxCut :
       rbuf = SubSeq(Concat(c, 1), 1, Len(Concat(c, 1)) - cut)
  /\ rres = <<>>
  /\ rfpc = "bytes"

\* let sf2 = new SF2.SF2(buf) / const wav = new SF2.RIFF(buf)
ParseRiff ==
  /\ rfpc = "bytes"
  /\ rres' = RiffNew(rbuf)
  /\ rfpc' = "parsed"
  /\ UNCHANGED rbuf
  /\ UNCHANGED quadVars
  /\ UNCHANGED gapVars
  /\ UNCHANGED bufVars
  /\ UNCHANGED zoneVars
  /\ UNCHANGED compVars
  /\ UNCHANGED refVars
  /\ UNCHANGED descVars
  /\ UNCHANGED termVars
  /\ UNCHANGED posVars
  /\ UNCHANGED nameVars
  /\ UNCHANGED decVars
  /\ UNCHANGED rangeVars
  /\ UNCHANGED pairVars
  /\ UNCHANGED memoVars
  /\ UNCHANGED orderVars
  /\ UNCHANGED genVars
  /\ UNCHANGED infoVars

NextRiff == ParseRiff

SpecRiff == InitRiff /\ [][NextRiff]_vars

(***************************************************************************)
(* Claims about the container parse.                                       *)
(***************************************************************************)
RiffParsed == rfpc = "parsed"

\* The first fault met walking the chunk boundaries of a buffer from pos:
\* one to seven bytes left, a declared length past the end, a container
\* with less than four payload bytes, or a fault inside a container.
RECURSIVE RiffFault(_, _)
RiffFault(buf, pos) ==
  LET left == Len(buf) - pos
      len  == ReadUInt32LE(buf, pos + 4)
      cont == SubSeq(buf, pos + 1, pos + 4) \in {RiffId, ListId}
  IN  IF left <= 0 THEN FALSE
      ELSE IF left < 8 THEN TRUE
      ELSE IF len > left - 8 THEN TRUE
      ELSE IF cont /\ len < 4 THEN TRUE
      ELSE IF cont /\ RiffFault(SubSeq(buf, pos + 13, pos + 8 + len), 0) THEN TRUE
      ELSE RiffFault(buf, pos + 8 + len + (IF len % 2 = 1 THEN 1 ELSE 0))

\* The listed chunks lie in the buffer one after the other from pos on,
\* each taking 8 + len bytes and a pad byte when len is odd, to the end.
RECURSIVE RiffLaid(_, _, _, _)
RiffLaid(buf, chunks, k, pos) ==
  IF k > Len(chunks) THEN pos >= Len(buf)
  ELSE LET c   == chunks[k]
           len == Len(c.data) + (IF c.container THEN 4 ELSE 0)
       IN  /\ pos + 8 + len <= Len(buf)
           /\ ReadUInt32LE(buf, pos + 4) = len
           /\ IF c.container
              THEN /\ SubSeq(buf, pos + 1, pos + 4) \in {RiffId, ListId}
                   /\ c.data = SubSeq(buf, pos + 13, pos + 8 + len)
                   /\ RiffLaid(c.data, c.chunks, 1, 0)
              ELSE /\ SubSeq(buf, pos + 1, pos + 4) \notin {RiffId, ListId}
                   /\ c.data = SubSeq(buf, pos + 9, pos + 8 + len)
           /\ RiffLaid(buf, chunks, k + 1,
                       pos + 8 + len + (IF len % 2 = 1 THEN 1 ELSE 0))

\* C18: at every nesting level the constructor throws when one to seven
\* bytes remain at a chunk boundary, when a declared length reaches past the
\* end of the enclosing buffer, and when a RIFF / LIST chunk has less than
\* four payload bytes; otherwise it lists the chunks in buffer order, each
\* consuming 8 + len bytes and a pad byte when len is odd.
C18_ContainerParsing ==
  RiffParsed =>
    IF RiffFault(rbuf, 0) THEN rres.err # "none"
    ELSE rres.err = "none" /\ RiffLaid(rbuf, rres.chunks, 1, 0)

\* An odd chunk with its pad byte followed by a container with a child:
\* both listed.
C18_Witness ==
  /\ RiffParsed
  /\ rres.err = "none"
  /\ Len(rres.chunks) = 2
  /\ ~rres.chunks[1].container /\ Len(rres.chunks[1].data) = 1
  /\ rres.chunks[2].container /\ Len(rres.chunks[2].chunks) = 1

\* A buffer that ends inside a chunk header was rejected.
C18_WitnessThrow ==
  /\ RiffParsed
  /\ rres.err = "Incomplete chunk header"

(***************************************************************************)
(* SpecRange: a range generator row (keyRange, velRange) with any two      *)
(* amount bytes is parsed by RecordLayout.a2, built into a Generator and   *)
(* written as text by the decoder.                                         *)
(***************************************************************************)
RangeOpers == {43, 44}

InitRange ==
  /\ QuadIdle /\ GapIdle /\ BufIdle /\ ZoneIdle /\ CompIdle /\ RefIdle /\ PairIdle /\ MemoIdle /\ OrderIdle /\ GenIdle /\ InfoIdle
  /\ DescIdle /\ TermIdle /\ PosIdle /\ NameIdle /\ DecIdle /\ RiffIdle
  /\ gcell \in [op : RangeOpers, lo : 0..255, hi : 0..255]
  /\ gdec = <<>>
  /\ gdpc = "sf2"

\* RecordLayout.pgen.parse, Generator.build, Generator.value and the text
\* YamlGen.preset / instrument give it.
DecodeRange ==
  /\ gdpc = "sf2"
  /\ \E g \in {GeneratorBuild(<< [ sfGenOper |-> gcell.op,
                                   genAmount |-> A2(gcell.lo + 256 * gcell.hi) ] >>)[1]} :
       gdec' = [ kind  |-> GeneratorKind(g.sfGenOper),
                 value |-> GeneratorValue(g),
                 text  |-> GenText(g, "instrument", RefNames).v ]
  /\ gdpc' = "text"
  /\ UNCHANGED gcell
  /\ UNCHANGED quadVars
  /\ UNCHANGED gapVars
  /\ UNCHANGED bufVars
  /\ UNCHANGED zoneVars
  /\ UNCHANGED compVars
  /\ UNCHANGED refVars
  /\ UNCHANGED descVars
  /\ UNCHANGED termVars
  /\ UNCHANGED posVars
  /\ UNCHANGED nameVars
  /\ UNCHANGED decVars
  /\ UNCHANGED riffVars
  /\ UNCHANGED pairVars
  /\ UNCHANGED memoVars
  /\ UNCHANGED orderVars
  /\ UNCHANGED genVars
  /\ UNCHANGED infoVars

NextRange == DecodeRange

SpecRange == InitRange /\ [][NextRange]_vars

(***************************************************************************)
(* Claims about range generators.                                          *)
(***************************************************************************)
RangeDecoded == gdpc = "text"

\* C19: for a generator of operator 43 or 44 and any two amount bytes the
\* decoded value is a pair (low, high) with 0 <= low <= 255 and
\* 0 <= high <= 255, and its text low-high names the two bytes.
C19_RangeBytes ==
  RangeDecoded =>
    /\ gdec.kind = "range"
    /\ 0 <= gdec.value.byLo /\ gdec.value.byLo <= 255
    /\ 0 <= gdec.value.byHi /\ gdec.value.byHi <= 255
    /\ gdec.text = ToString(gcell.lo) \o "-" \o ToString(gcell.hi)

\* What holds instead: the bytes are read signed, the value is the pair of
\* the bytes' two's complement readings and the text is made of those.
C19_SignedRange ==
  RangeDecoded =>
    /\ gdec.kind = "range"
    /\ gdec.value.byLo = I8(gcell.lo) /\ gdec.value.byHi = I8(gcell.hi)
    /\ 0 - 128 <= gdec.value.byLo /\ gdec.value.byLo <= 127
    /\ (gcell.lo <= 127 /\ gcell.hi <= 127) =>
         gdec.text = ToString(gcell.lo) \o "-" \o ToString(gcell.hi)

(***************************************************************************)
(* SpecPair: writeWavs() of mkjssf.js writes one wave file per instrument  *)
(* and, when no sample header has a link, pairs left and right samples by  *)
(* the key and velocity range of their zones.                              *)
(*                                                                         *)
(* The file has six samples (right, left, mono, right, left, and one of a  *)
(* type writeWavs does not know), all links zero or the pairs linked, and  *)
(* at most MaxInsts instruments, each one of PairInstruments.              *)
(* The instruments have different names and the samples one rate, so each  *)
(* instrument has one file name and no two collide.                        *)
(***************************************************************************)
MaxInsts == 2

SampleTypes == <<2, 4, 1, 2, 4, 8>>

LinkedTo == <<1, 0, 0, 4, 3, 0>>

PairShdr(linked) ==
  [k \in DOMAIN SampleTypes |->
     [ id |-> k - 1, sfSampleType |-> SampleTypes[k], dwStart |-> 10 * (k - 1),
       dwEnd |-> 10 * (k - 1) + 4, dwSamplerRate |-> 44100,
       wSampleLink |-> IF linked THEN LinkedTo[k] ELSE 0 ]]

\* A local zone: range stands for `${z.keyRange}|${z.velRange}`.
PairZone(range, id) == [range |-> range, sampleID |-> id]

\* The zone lists of an instrument: none; a pair; a right sample alone; two
\* right samples of one range and a left one; a mono sample; a right and a
\* left sample of different ranges; a pair and a mono sample; two pairs; a
\* sample of unknown type; a right sample with one left sample in one range
\* and another in a second range, in both orders of the ranges.
PairInstruments ==
  << <<>>,
     <<PairZone("1-2|0-127", 0), PairZone("1-2|0-127", 1)>>,
     <<PairZone("1-2|0-127", 0)>>,
     <<PairZone("1-2|0-127", 0), PairZone("1-2|0-127", 3), PairZone("1-2|0-127", 1)>>,
     <<PairZone("1-2|0-127", 2)>>,
     <<PairZone("1-2|0-127", 0), PairZone("3-4|0-127", 1)>>,
     <<PairZone("1-2|0-127", 1), PairZone("1-2|0-127", 0), PairZone("3-4|0-127", 2)>>,
     <<PairZone("1-2|0-127", 0), PairZone("1-2|0-127", 1),
       PairZone("3-4|0-127", 3), PairZone("3-4|0-127", 4)>>,
     <<PairZone("1-2|0-127", 5)>>,
     <<PairZone("1-2|0-127", 0), PairZone("1-2|0-127", 1),
       PairZone("3-4|0-127", 0), PairZone("3-4|0-127", 4)>>,
     <<PairZone("3-4|0-127", 4), PairZone("3-4|0-127", 0),
       PairZone("1-2|0-127", 1), PairZone("1-2|0-127", 0)>> >>

\* const unpaired = sf2.shdr.every(s => !s.wSampleLink)
Unpaired(hdrs) == \A k \in DOMAIN hdrs : hdrs[k].wSampleLink = 0

\* A counterpart that is the side itself.
CounterpartSame(side) == side

\* {r:"l", l:"r"}[k.slice(-1)]
Counterpart(side) == IF side = "r" THEN "l" ELSE "r"

PairKey(range, side) == range \o "|" \o side

\* for (let z of inst.localZones): pairings1[k] = z.sampleID.id, a key met
\* again is reported.
RECURSIVE Pairings1(_, _, _, _, _)
Pairings1(hdrs, zones, n, map, warns) ==
  IF n > Len(zones) THEN [map |-> map, warns |-> warns]
  ELSE LET t    == hdrs[zones[n].sampleID + 1].sfSampleType
           side == IF t = 2 THEN "r" ELSE "l"
           k    == [range |-> zones[n].range, side |-> side]
       IN  IF t \notin {2, 4} THEN Pairings1(hdrs, zones, n + 1, map, warns)
           ELSE Pairings1(hdrs, zones, n + 1,
                  (k :> zones[n].sampleID) @@ map,
                  IF k \in DOMAIN map
                  THEN warns \cup {"Duplicate pairing key " \o PairKey(k.range, k.side)}
                  ELSE warns)

\* The keys of pairings1 in the order for (let k in pairings1) visits them:
\* that of their first assignment.
RECURSIVE KeyOrder(_, _, _, _)
KeyOrder(hdrs, zones, n, keys) ==
  IF n > Len(zones) THEN keys
  ELSE LET t == hdrs[zones[n].sampleID + 1].sfSampleType
           k == [range |-> zones[n].range, side |-> IF t = 2 THEN "r" ELSE "l"]
       IN  IF t \notin {2, 4} \/ \E j \in DOMAIN keys : keys[j] = k
           THEN KeyOrder(hdrs, zones, n + 1, keys)
           ELSE KeyOrder(hdrs, zones, n + 1, Append(keys, k))

\* for (let k in pairings1): pairings[pairings1[k]] = pairings1[l], a later
\* key of the same sample replacing the earlier one; a key without its
\* counterpart is reported.
RECURSIVE Pairings(_, _, _, _, _)
Pairings(map, keys, n, pairs, warns) ==
  IF n > Len(keys) THEN [pairs |-> pairs, warns |-> warns]
  ELSE LET k == keys[n]
           l == [range |-> k.range, side |-> Counterpart(k.side)]
       IN  IF l \in DOMAIN map
           THEN Pairings(map, keys, n + 1, (map[k] :> map[l]) @@ pairs, warns)
           ELSE Pairings(map, keys, n + 1, pairs,
                         warns \cup {"Unpaired " \o PairKey(k.range, k.side)})

\* samples = sorted ids of the local zones' samples
RECURSIVE SortedIds(_)
SortedIds(S) ==
  IF S = {} THEN <<>>
  ELSE LET m == CHOOSE x \in S : \A y \in S : x <= y
       IN  <<m>> \o SortedIds(S \ {m})

\* for (let s of samples) switch (s.sfSampleType): the parts of the file,
\* or the error thrown.
RECURSIVE WavParts(_, _, _, _, _, _)
WavParts(hdrs, ids, n, unpaired, pairs, parts) ==
  IF n > Len(ids) THEN [err |-> "none", parts |-> parts]
  ELSE LET s == hdrs[ids[n] + 1]
       IN  CASE s.sfSampleType = 1 ->
                  WavParts(hdrs, ids, n + 1, unpaired, pairs,
                    Append(parts, [left |-> s.dwStart, right |-> s.dwStart,
                                   len |-> s.dwEnd - s.dwStart, mono |-> TRUE]))
             [] s.sfSampleType = 2 ->
                  LET P == IF unpaired
                           THEN (IF s.id \in DOMAIN pairs THEN {pairs[s.id]} ELSE {})
                           ELSE {s.wSampleLink}
                  IN  IF P = {} THEN [err |-> "TypeError: dwStart of undefined"]
                      ELSE WavParts(hdrs, ids, n + 1, unpaired, pairs,
                             Append(parts,
                               [left |-> hdrs[(CHOOSE x \in P : TRUE) + 1].dwStart,
                                right |-> s.dwStart,
                                len |-> s.dwEnd - s.dwStart, mono |-> FALSE]))
             [] s.sfSampleType = 4 ->
                  WavParts(hdrs, ids, n + 1, unpaired, pairs, parts)
             [] OTHER -> [err |-> "Unknown sample type"]

\* The body of for (let inst of sf2.inst) for instrument i.
WavOfInstrument(hdrs, zones, i) ==
  LET unpaired == Unpaired(hdrs)
      p1       == Pairings1(hdrs, zones, 1, <<>>, {})
      p2       == Pairings(p1.map, KeyOrder(hdrs, zones, 1, <<>>), 1, <<>>, {})
      warns    == IF unpaired THEN p1.warns \cup p2.warns ELSE {}
      ids      == SortedIds({zones[k].sampleID : k \in DOMAIN zones})
      w        == WavParts(hdrs, ids, 1, unpaired, p2.pairs, <<>>)
  IN  IF warns # {} THEN [err |-> "none", warns |-> warns, files |-> <<>>]
      ELSE IF Len(ids) = 0 THEN [err |-> "none", warns |-> {}, files |-> <<>>]
      ELSE IF w.err # "none" THEN [err |-> w.err, warns |-> {}, files |-> <<>>]
      ELSE [ err |-> "none", warns |-> {},
             files |-> << [ inst |-> i, parts |-> w.parts,
                            channels |-> IF \A k \in DOMAIN w.parts : w.parts[k].mono
                                         THEN 1 ELSE 2 ] >> ]

\* writeWavs(sf2): the instruments in turn, up to the end or to the first
\* exception.
RECURSIVE WriteWavsLoop(_, _, _, _, _)
WriteWavsLoop(hdrs, insts, i, log, files) ==
  IF i > Len(insts)
  THEN [status |-> "done", log |-> log, files |-> files, err |-> <<>>]
  ELSE LET r == WavOfInstrument(hdrs, insts[i], i)
       IN  IF r.err # "none"
           THEN [ status |-> "threw", log |-> log, files |-> files,
                  err |-> [at |-> i, msg |-> r.err] ]
           ELSE WriteWavsLoop(hdrs, insts, i + 1, Append(log, r.warns),
                              files \o r.files)

InitPair ==
  /\ QuadIdle /\ GapIdle /\ BufIdle /\ ZoneIdle /\ CompIdle /\ RefIdle /\ MemoIdle /\ OrderIdle /\ GenIdle /\ InfoIdle
  /\ DescIdle /\ TermIdle /\ PosIdle /\ NameIdle /\ DecIdle /\ RiffIdle
  /\ RangeIdle
  /\ wshdr \in {PairShdr(l) : l \in BOOLEAN}
  /\ \E c \in SeqsUpTo(DOMAIN PairInstruments, MaxInsts) :
       winsts = [k \in DOMAIN c |-> PairInstruments[c[k]]]
  /\ wlog = <<>>
  /\ wfiles = <<>>
  /\ wstatus = "sf2"
  /\ werr = <<>>

WriteWavs ==
  /\ wstatus = "sf2"
  /\ \E r \in {WriteWavsLoop(wshdr, winsts, 1, <<>>, <<>>)} :
       /\ wstatus' = r.status
       /\ wlog' = r.log
       /\ wfiles' = r.files
       /\ werr' = r.err
  /\ UNCHANGED <<wshdr, winsts>>
  /\ UNCHANGED quadVars
  /\ UNCHANGED gapVars
  /\ UNCHANGED bufVars
  /\ UNCHANGED zoneVars
  /\ UNCHANGED compVars
  /\ UNCHANGED refVars
  /\ UNCHANGED descVars
  /\ UNCHANGED termVars
  /\ UNCHANGED posVars
  /\ UNCHANGED nameVars
  /\ UNCHANGED decVars
  /\ UNCHANGED riffVars
  /\ UNCHANGED rangeVars
  /\ UNCHANGED memoVars
  /\ UNCHANGED orderVars
  /\ UNCHANGED genVars
  /\ UNCHANGED infoVars

NextPair == WriteWavs

SpecPair == InitPair /\ [][NextPair]_vars

(***************************************************************************)
(* Claims about the pairing repair.                                        *)
(***************************************************************************)
WavsRun == wstatus \in {"done", "threw"}

\* The left and right zones of instrument i, by index.
Sided(i) ==
  {k \in DOMAIN winsts[i] :
     wshdr[winsts[i][k].sampleID + 1].sfSampleType \in {2, 4}}

SideOf(i, k) == wshdr[winsts[i][k].sampleID + 1].sfSampleType

\* A key of instrument i is duplicated, or has no counterpart.
PairingFails(i) ==
  \/ \E j, k \in Sided(i) :
       j # k /\ winsts[i][j].range = winsts[i][k].range
             /\ SideOf(i, j) = SideOf(i, k)
  \/ \E j \in Sided(i) :
       ~\E k \in Sided(i) :
          winsts[i][j].range = winsts[i][k].range /\ SideOf(i, j) # SideOf(i, k)

\* The instruments writeWavs got to.
Reached == IF wstatus = "done" THEN Len(winsts) ELSE werr.at

\* C20: with every wSampleLink zero, an instrument with a duplicated left /
\* right key or a key without its counterpart gets a warning and no file,
\* does not make writeWavs throw, and the instruments after it are
\* processed; the link fields of the sample headers stay as they were.
C20_PairingRepair ==
  WavsRun =>
    /\ \A i \in 1..Len(winsts) :
         (Unpaired(wshdr) /\ PairingFails(i) /\ i <= Reached) =>
           /\ ~(wstatus = "threw" /\ werr.at = i)
           /\ wlog[i] # {}
           /\ \A f \in DOMAIN wfiles : wfiles[f].inst # i
           /\ Reached > i \/ i = Len(winsts)
    /\ \A i \in 1..Len(winsts) :
         (i <= Len(wlog) /\ ~(Unpaired(wshdr) /\ PairingFails(i))) =>
           /\ wlog[i] = {}
           /\ winsts[i] # <<>> => \E f \in DOMAIN wfiles : wfiles[f].inst = i
    /\ wshdr \in {PairShdr(l) : l \in BOOLEAN}

\* No links; the first instrument has a right sample without a left one and
\* was skipped with a warning, the second has a pair and got its file.
C20_Witness ==
  /\ wstatus = "done"
  /\ Unpaired(wshdr)
  /\ Len(winsts) = 2
  /\ winsts[1] = PairInstruments[3] /\ winsts[2] = PairInstruments[2]
  /\ wlog[1] # {} /\ wlog[2] = {}
  /\ Len(wfiles) = 1 /\ wfiles[1].inst = 2 /\ wfiles[1].channels = 2


\* The pairing writeWavs derives for instrument i.
PairingsOf(i) ==
  Pairings(Pairings1(wshdr, winsts[i], 1, <<>>, {}).map,
           KeyOrder(wshdr, winsts[i], 1, <<>>), 1, <<>>, {}).pairs

\* C30: with every wSampleLink zero, the pairing of an instrument whose
\* keys are neither duplicated nor without counterpart is symmetric and
\* one-to-one, a right sample with a left one, whatever the order of the
\* zones.
C30_SymmetricPairing ==
  WavsRun =>
    \A i \in 1..Len(winsts) :
      (Unpaired(wshdr) /\ ~PairingFails(i)) =>
        LET p == PairingsOf(i)
        IN  \A x \in DOMAIN p :
              /\ p[x] \in DOMAIN p /\ p[p[x]] = x
              /\ {wshdr[x + 1].sfSampleType, wshdr[p[x] + 1].sfSampleType} = {2, 4}

\* The same, for the instruments that use no sample under two keys.
C30_SymmetricWhenOneKeyPerSample ==
  WavsRun =>
    \A i \in 1..Len(winsts) :
      ( /\ Unpaired(wshdr) /\ ~PairingFails(i)
        /\ \A j, k \in Sided(i) :
             (j # k /\ winsts[i][j].sampleID = winsts[i][k].sampleID)
               => winsts[i][j].range = winsts[i][k].range ) =>
        LET p == PairingsOf(i)
        IN  \A x \in DOMAIN p :
              /\ p[x] \in DOMAIN p /\ p[p[x]] = x
              /\ {wshdr[x + 1].sfSampleType, wshdr[p[x] + 1].sfSampleType} = {2, 4}

(***************************************************************************)
(* SpecMemo: the caches of one SF2 object (the table getters, read up to   *)
(* MaxAccess times in any order) and of one YamlParse object (compile()    *)
(* dispatching up to MaxHandlers chunk handlers, the reads they wait for   *)
(* completing in any order).                                               *)
(*                                                                         *)
(* Every computation makes a new object, numbered from 1.  memo.cache is   *)
(* the cache field of each key (0: not set), memo.runs the number of times *)
(* its computation was started, memo.fails the number of times it threw,   *)
(* memo.got the objects handed to requesters, memo.pend the computations   *)
(* of the encoder that wait for their first read.                          *)
(***************************************************************************)
MaxAccess == 3
MaxHandlers == 3

Getters == {"shdr", "pmod", "pgen", "pbag", "phdr", "imod", "igen", "ibag", "inst"}

SampleKey(name) == "sample:" \o name

EncoderKeys == {"_sdta", "_smpls", "_pres", "_inst", SampleKey("a"), SampleKey("b")}

\* A cache test that never finds anything.
MemoNever(st, key) == FALSE

\* if (this[_name]) return this[_name]; this._pres || ...; this.samples.has(name)
Memo(st, key) == st.cache[key] # 0

\* return this[_name] = res: the computation of key makes a new object.
Compute(st, key) ==
  [st EXCEPT !.runs[key] = @ + 1, !.cache[key] = st.next, !.next = @ + 1]

\* The computation of key throws after RecordLayout.parse.
Throw(st, key) ==
  [st EXCEPT !.runs[key] = @ + 1, !.fails[key] = @ + 1, !.err = TRUE]

\* get shdr, pmod, pgen, imod, igen: _cachedRecord(name, ...)
GetLeaf(st, key) == IF Memo(st, key) THEN st ELSE Compute(st, key)

\* get pbag / get ibag
GetBag(st, l) ==
  IF Memo(st, l \o "bag") THEN st
  ELSE Compute(GetLeaf(GetLeaf(st, l \o "gen"), l \o "mod"), l \o "bag")

\* get inst: the pairwise callback reads this.shdr for every row and
\* _localZones throws when a zone does not link.
GetInst(st, f) ==
  IF Memo(st, "inst") THEN st
  ELSE LET s1 == GetBag(st, "i")
           s2 == IF f.ni > 0 THEN GetLeaf(s1, "shdr") ELSE s1
       IN  IF f.ni > 0 /\ ~f.instLinks THEN Throw(s2, "inst")
           ELSE Compute(s2, "inst")

\* get phdr: the pairwise callback reads this.inst for every row.
GetPhdr(st, f) ==
  IF Memo(st, "phdr") THEN st
  ELSE LET s1 == GetBag(st, "p")
           s2 == IF f.np > 0 THEN GetInst(s1, f) ELSE s1
       IN  IF s2.err \/ (f.np > 0 /\ ~f.presetLinks) THEN Throw(s2, "phdr")
           ELSE Compute(s2, "phdr")

Get(st, f, key) ==
  CASE key = "phdr" -> GetPhdr(st, f)
    [] key = "inst" -> GetInst(st, f)
    [] key = "pbag" -> GetBag(st, "p")
    [] key = "ibag" -> GetBag(st, "i")
    [] OTHER -> GetLeaf(st, key)

\* A requester is handed the object of key.
Hand(st, key) == [st EXCEPT !.got[key] = @ \cup {st.cache[key]}]

\* riff_sdta(), samples1(), presets(), instruments(), sample(name): the
\* cached promise, or a new one whose first read is pending.
Call(st, key) ==
  IF Memo(st, key) THEN Hand(st, key)
  ELSE LET c == Compute(st, key)
       IN  Hand(IF key \in {"_sdta", "_smpls", "_pres", "_inst"}
                THEN [c EXCEPT !.pend = @ \cup {[key |-> key, id |-> c.cache[key]]}]
                ELSE c,
                key)

RECURSIVE CallAll(_, _, _)
CallAll(st, keys, n) ==
  IF n > Len(keys) THEN st ELSE CallAll(Call(st, keys[n]), keys, n + 1)

\* The method a chunk handler riff_<name>() asks.
HandlerKey(name) ==
  CASE name = "sdta" -> "_sdta"
    [] name = "shdr" -> "_smpls"
    [] name \in {"phdr", "pbag", "pmod", "pgen"} -> "_pres"
    [] OTHER -> "_inst"

\* What a computation asks for when its read has completed: riff_sdta()
\* reads every wave file, and with it sample(name); samples2() asks
\* sample(name) for every name and riff_sdta(); quad() asks instruments()
\* or samples1() for every generator that names an instrument or a sample.
Continuation(key, f) ==
  CASE key = "_sdta"  -> [k \in 1..Len(f.sdta) |-> SampleKey(f.sdta[k])]
    [] key = "_smpls" -> [k \in 1..Len(f.shdr) |-> SampleKey(f.shdr[k])] \o <<"_sdta">>
    [] key = "_pres"  -> [k \in 1..f.pgens |-> "_inst"]
    [] key = "_inst"  -> [k \in 1..f.igens |-> "_smpls"]

MemoNew(keys) ==
  [ cache |-> [k \in keys |-> 0], runs |-> [k \in keys |-> 0],
    fails |-> [k \in keys |-> 0], got |-> [k \in keys |-> {}],
    next |-> 1, pend |-> {}, err |-> FALSE ]

InitMemo ==
  /\ QuadIdle /\ GapIdle /\ BufIdle /\ ZoneIdle /\ CompIdle /\ RefIdle /\ OrderIdle /\ GenIdle /\ InfoIdle
  /\ DescIdle /\ TermIdle /\ PosIdle /\ NameIdle /\ DecIdle /\ RiffIdle
  /\ RangeIdle /\ PairIdle
  /\ mside \in {"decode", "encode"}
  /\ IF mside = "decode"
     THEN /\ mfile \in [np : 0..1, ni : 0..1, presetLinks : BOOLEAN,
                        instLinks : BOOLEAN]
          /\ memo = MemoNew(Getters)
     ELSE /\ \E d \in SeqsUpTo({"sdta", "shdr", "phdr", "pgen", "inst", "ibag"},
                               MaxHandlers) :
             mfile \in [desc : {d}, pgens : 0..2, igens : 0..2,
                        sdta : {<<"a", "b">>}, shdr : {<<"b", "a">>}]
          /\ memo = MemoNew(EncoderKeys)
  /\ macc = 0

\* sf2.<name>: one access of a table getter by the decoder.
Access ==
  /\ mside = "decode"
  /\ macc < MaxAccess
  /\ \E key \in Getters :
     \E r \in {Get([memo EXCEPT !.err = FALSE], mfile, key)} :
       memo' = IF r.err THEN r ELSE Hand(r, key)
  /\ macc' = macc + 1
  /\ UNCHANGED <<mside, mfile>>
  /\ UNCHANGED quadVars
  /\ UNCHANGED gapVars
  /\ UNCHANGED bufVars
  /\ UNCHANGED zoneVars
  /\ UNCHANGED compVars
  /\ UNCHANGED refVars
  /\ UNCHANGED descVars
  /\ UNCHANGED termVars
  /\ UNCHANGED posVars
  /\ UNCHANGED nameVars
  /\ UNCHANGED decVars
  /\ UNCHANGED riffVars
  /\ UNCHANGED rangeVars
  /\ UNCHANGED pairVars
  /\ UNCHANGED orderVars
  /\ UNCHANGED genVars
  /\ UNCHANGED infoVars

\* compile(): riffDispatch calls the handler of every chunk of the
\* descriptor, in order, before any read completes.
Dispatch ==
  /\ mside = "encode"
  /\ macc = 0
  /\ memo' = CallAll(memo, [k \in 1..Len(mfile.desc) |-> HandlerKey(mfile.desc[k])], 1)
  /\ macc' = 1
  /\ UNCHANGED <<mside, mfile>>
  /\ UNCHANGED quadVars
  /\ UNCHANGED gapVars
  /\ UNCHANGED bufVars
  /\ UNCHANGED zoneVars
  /\ UNCHANGED compVars
  /\ UNCHANGED refVars
  /\ UNCHANGED descVars
  /\ UNCHANGED termVars
  /\ UNCHANGED posVars
  /\ UNCHANGED nameVars
  /\ UNCHANGED decVars
  /\ UNCHANGED riffVars
  /\ UNCHANGED rangeVars
  /\ UNCHANGED pairVars
  /\ UNCHANGED orderVars
  /\ UNCHANGED genVars
  /\ UNCHANGED infoVars

\* The read a pending computation waits for completes, and its then()
\* callback makes its requests.
ReadCompleted ==
  /\ mside = "encode"
  /\ macc = 1
  /\ \E p \in memo.pend :
       memo' = CallAll([memo EXCEPT !.pend = @ \ {p}],
                       Continuation(p.key, mfile), 1)
  /\ UNCHANGED <<mside, mfile, macc>>
  /\ UNCHANGED quadVars
  /\ UNCHANGED gapVars
  /\ UNCHANGED bufVars
  /\ UNCHANGED zoneVars
  /\ UNCHANGED compVars
  /\ UNCHANGED refVars
  /\ UNCHANGED descVars
  /\ UNCHANGED termVars
  /\ UNCHANGED posVars
  /\ UNCHANGED nameVars
  /\ UNCHANGED decVars
  /\ UNCHANGED riffVars
  /\ UNCHANGED rangeVars
  /\ UNCHANGED pairVars
  /\ UNCHANGED orderVars
  /\ UNCHANGED genVars
  /\ UNCHANGED infoVars

NextMemo == Access \/ Dispatch \/ ReadCompleted

SpecMemo == InitMemo /\ [][NextMemo]_vars

(***************************************************************************)
(* Claims about the caches.                                                *)
(***************************************************************************)
\* C25: every key is computed at most once with success, is not computed
\* again once it is cached, and every requester is handed the same object;
\* on the encoder no computation is started twice.
C25_ComputeOnce ==
  mside # "idle" =>
    \A key \in DOMAIN memo.cache :
      /\ memo.runs[key] - memo.fails[key] <= 1
      /\ Cardinality(memo.got[key]) <= 1
      /\ memo.got[key] # {} => memo.got[key] = {memo.cache[key]}
      /\ mside = "encode" => memo.runs[key] <= 1

\* Every later access returns the cached object: once a key is cached, its
\* object and the number of its computations stay.
C25_CacheKept ==
  [][mside # "idle" =>
       \A key \in DOMAIN memo.cache :
         memo.cache[key] # 0 =>
           /\ memo'.cache[key] = memo.cache[key]
           /\ memo'.runs[key] = memo.runs[key]]_vars

\* The encoder with the handlers of sdta, shdr and inst, instrument zones
\* that name samples, every read completed: riff_sdta was asked by the
\* handler and by samples2, samples1 by the handler and by quad, each
\* sample by riff_sdta and by samples2, and each was started once.
C25_Witness ==
  /\ mside = "encode" /\ macc = 1 /\ memo.pend = {}
  /\ mfile.desc = <<"sdta", "shdr", "inst">> /\ mfile.igens = 2
  /\ \A key \in {"_sdta", "_smpls", "_inst", SampleKey("a"), SampleKey("b")} :
       memo.runs[key] = 1 /\ Cardinality(memo.got[key]) = 1

(***************************************************************************)
(* SpecOrder: compile() over a RIFF descriptor { sfbk: [...] } of at most  *)
(* MaxItems items, each a chunk name or one of NestedLists; the promises   *)
(* of the chunk handlers are fulfilled in any order.  Bytes are numbers.   *)
(***************************************************************************)
MaxItems == 2

\* A chunk name with the payload its handler produces, or a list.
LeafItem(id, payload) == [isList |-> FALSE, id |-> id, payload |-> payload, items |-> <<>>]

ListItem(type, items) == [isList |-> TRUE, id |-> type, payload |-> <<>>, items |-> items]

Leaves ==
  << LeafItem(<<97, 97, 97, 97>>, <<>>),
     LeafItem(<<98, 98, 98, 98>>, <<1, 2>>),
     LeafItem(<<99, 99, 99, 99>>, <<3, 4, 5, 6>>) >>

NestedLists ==
  LET pdta == <<112, 100, 116, 97>>
  IN  << ListItem(pdta, <<>>),
         ListItem(pdta, <<Leaves[3]>>),
         ListItem(pdta, <<Leaves[1], Leaves[2]>>),
         ListItem(pdta, <<Leaves[2], Leaves[1]>>) >>

OrderItems == Leaves \o NestedLists

\* The positions of the chunk handlers in a descriptor.
LeafPaths(items) ==
  {<<i>> : i \in {k \in DOMAIN items : ~items[k].isList}} \cup
  UNION {{<<i, j>> : j \in DOMAIN items[i].items} :
         i \in {k \in DOMAIN items : items[k].isList}}

\* riffChunk(id, buf)
RiffChunk(id, buf) == id \o <<Len(buf) % 256, Len(buf) \div 256, 0, 0>> \o buf

RECURSIVE Flatten(_, _)
Flatten(parts, n) ==
  IF n > Len(parts) THEN <<>> ELSE parts[n] \o Flatten(parts, n + 1)

RECURSIVE TotalLength(_, _)
TotalLength(bufs, n) ==
  IF n > Len(bufs) THEN 0 ELSE Len(bufs[n]) + TotalLength(bufs, n + 1)

\* riffList(id, type, parts): the buffers of the parts behind a head of 12
\* bytes whose length field is 4 plus their lengths.
RiffList(id, type, parts) ==
  LET bufs == Flatten(parts, 1)
      len  == 4 + TotalLength(bufs, 1)
  IN  <<id \o <<len % 256, len \div 256, 0, 0>> \o type>> \o bufs

\* The place of position p among the completed ones (0: a list without
\* chunks), for a list the place of its last chunk.
DoneAt(order, p) ==
  LET S == {k \in DOMAIN order : SubSeq(order[k], 1, Len(p)) = p}
  IN  IF S = {} THEN 0 ELSE CHOOSE k \in S : \A j \in S : j <= k

\* A Promise.all that lists the values in the order the promises were
\* fulfilled.
RECURSIVE PromiseAllValuesByTime(_, _)
PromiseAllValuesByTime(vals, times) ==
  IF vals = <<>> THEN <<>>
  ELSE LET k == CHOOSE i \in DOMAIN vals :
                  \A j \in DOMAIN vals :
                    times[i] < times[j] \/ (times[i] = times[j] /\ i <= j)
           rest(s) == SubSeq(s, 1, k - 1) \o SubSeq(s, k + 1, Len(s))
       IN  <<vals[k]>> \o PromiseAllValuesByTime(rest(vals), rest(times))

\* Promise.all(promises).then(parts => ...): the values in the order of the
\* promises, whenever each was fulfilled.
PromiseAllValues(vals, times) == vals

\* riffDispatch(list, data) once every handler below it is fulfilled: the
\* handler's buffers for a chunk name, riffList over the parts for a list.
RiffDispatch(list, item, path, res, order) ==
  IF ~item.isList THEN res[path]
  ELSE RiffList(list, item.id,
         PromiseAllValues(
           [k \in DOMAIN item.items |-> res[Append(path, k)]],
           [k \in DOMAIN item.items |-> DoneAt(order, Append(path, k))]))

\* compile(): riffDispatch("RIFF", data) with the items dispatched as LIST,
\* then Buffer.concat(parts).
Compile(items, res, order) ==
  LET sfbk == <<115, 102, 98, 107>>
      bufs == RiffList(RiffId, sfbk,
                PromiseAllValues(
                  [k \in DOMAIN items |->
                     RiffDispatch(ListId, items[k], <<k>>, res, order)],
                  [k \in DOMAIN items |-> DoneAt(order, <<k>>)]))
  IN  Flatten(bufs, 1)

InitOrder ==
  /\ QuadIdle /\ GapIdle /\ BufIdle /\ ZoneIdle /\ CompIdle /\ RefIdle /\ GenIdle /\ InfoIdle
  /\ DescIdle /\ TermIdle /\ PosIdle /\ NameIdle /\ DecIdle /\ RiffIdle
  /\ RangeIdle /\ PairIdle /\ MemoIdle
  /\ \E c \in SeqsUpTo(DOMAIN OrderItems, MaxItems) :
       odesc = [k \in DOMAIN c |-> OrderItems[c[k]]]
  /\ ores = [p \in LeafPaths(odesc) |-> <<>>]
  /\ oorder = <<>>
  /\ oout = <<>>
  /\ opc = "pending"

\* The promise of one chunk handler is fulfilled with its buffers; when it
\* was the last one, the lists and compile() are fulfilled in turn.
HandlerDone ==
  /\ opc = "pending"
  /\ \E p \in LeafPaths(odesc) :
       /\ \A k \in DOMAIN oorder : oorder[k] # p
       /\ \E item \in {IF Len(p) = 1 THEN odesc[p[1]] ELSE odesc[p[1]].items[p[2]]} :
            ores' = [ores EXCEPT ![p] = <<RiffChunk(item.id, item.payload)>>]
       /\ oorder' = Append(oorder, p)
  /\ IF Len(oorder') = Cardinality(LeafPaths(odesc))
     THEN oout' = Compile(odesc, ores', oorder') /\ opc' = "done"
     ELSE UNCHANGED <<oout, opc>>
  /\ UNCHANGED odesc
  /\ UNCHANGED quadVars
  /\ UNCHANGED gapVars
  /\ UNCHANGED bufVars
  /\ UNCHANGED zoneVars
  /\ UNCHANGED compVars
  /\ UNCHANGED refVars
  /\ UNCHANGED descVars
  /\ UNCHANGED termVars
  /\ UNCHANGED posVars
  /\ UNCHANGED nameVars
  /\ UNCHANGED decVars
  /\ UNCHANGED riffVars
  /\ UNCHANGED rangeVars
  /\ UNCHANGED pairVars
  /\ UNCHANGED memoVars
  /\ UNCHANGED genVars
  /\ UNCHANGED infoVars

\* A descriptor without chunk names: compile() is fulfilled on the lists
\* alone.
NoHandler ==
  /\ opc = "pending"
  /\ LeafPaths(odesc) = {}
  /\ oout' = Compile(odesc, ores, oorder)
  /\ opc' = "done"
  /\ UNCHANGED <<odesc, ores, oorder>>
  /\ UNCHANGED quadVars
  /\ UNCHANGED gapVars
  /\ UNCHANGED bufVars
  /\ UNCHANGED zoneVars
  /\ UNCHANGED compVars
  /\ UNCHANGED refVars
  /\ UNCHANGED descVars
  /\ UNCHANGED termVars
  /\ UNCHANGED posVars
  /\ UNCHANGED nameVars
  /\ UNCHANGED decVars
  /\ UNCHANGED riffVars
  /\ UNCHANGED rangeVars
  /\ UNCHANGED pairVars
  /\ UNCHANGED memoVars
  /\ UNCHANGED genVars
  /\ UNCHANGED infoVars

NextOrder == HandlerDone \/ NoHandler

SpecOrder == InitOrder /\ [][NextOrder]_vars

(***************************************************************************)
(* Claims about the order of the chunks.                                   *)
(***************************************************************************)
\* Chunk c, as new RIFF() lists it, is what item says: a chunk of the
\* handler's id and payload, or a LIST of the item's type with the chunks
\* of its items in their order.
ChunkIs(c, item) ==
  IF item.isList
  THEN /\ c.container /\ c.isList /\ c.id = item.id
       /\ Len(c.chunks) = Len(item.items)
       /\ \A j \in DOMAIN item.items :
            /\ ~c.chunks[j].container
            /\ c.chunks[j].id = item.items[j].id
            /\ c.chunks[j].data = item.items[j].payload
  ELSE ~c.container /\ c.id = item.id /\ c.data = item.payload

\* C26: the bytes of compile(), read as a RIFF file, hold one RIFF chunk of
\* type sfbk whose chunks are those of the descriptor in the descriptor's
\* order at every level, whatever the order the handlers completed in, and
\* the length field of every container is 4 plus the bytes of its children.
C26_ChunkOrder ==
  opc = "done" =>
    LET r == RiffNew(oout)
    IN  /\ r.err = "none"
        /\ Len(r.chunks) = 1
        /\ r.chunks[1].container /\ ~r.chunks[1].isList
        /\ r.chunks[1].id = <<115, 102, 98, 107>>
        /\ Len(r.chunks[1].chunks) = Len(odesc)
        /\ \A k \in DOMAIN odesc : ChunkIs(r.chunks[1].chunks[k], odesc[k])
        /\ RiffLaid(oout, r.chunks, 1, 0)
        /\ ReadUInt32LE(oout, 4) = Len(oout) - 8

\* A chunk and a list of two chunks, completed in the order: second chunk
\* of the list, the chunk before the list, first chunk of the list.
C26_Witness ==
  /\ opc = "done"
  /\ Len(odesc) = 2 /\ ~odesc[1].isList /\ odesc[2].isList
  /\ Len(odesc[2].items) = 2
  /\ oorder = << <<2, 2>>, <<1>>, <<2, 1>> >>

(***************************************************************************)
(* SpecGenName: the operator code of one generator row, any unsigned 16    *)
(* bit value, is named by the decoder and looked up by the encoder.        *)
(***************************************************************************)
InitGenName ==
  /\ QuadIdle /\ GapIdle /\ BufIdle /\ ZoneIdle /\ CompIdle /\ RefIdle /\ InfoIdle
  /\ DescIdle /\ TermIdle /\ PosIdle /\ NameIdle /\ DecIdle /\ RiffIdle
  /\ RangeIdle /\ PairIdle /\ MemoIdle /\ OrderIdle
  /\ gop \in 0..65535
  /\ gname = ""
  /\ gback = <<>>
  /\ gnpc = "row"

\* YamlGen.zone: {[g.name]: g.value} with Generator.name.
EmitName ==
  /\ gnpc = "row"
  /\ gname' = GeneratorName(gop)
  /\ gnpc' = "yaml"
  /\ UNCHANGED <<gop, gback>>
  /\ UNCHANGED quadVars
  /\ UNCHANGED gapVars
  /\ UNCHANGED bufVars
  /\ UNCHANGED zoneVars
  /\ UNCHANGED compVars
  /\ UNCHANGED refVars
  /\ UNCHANGED descVars
  /\ UNCHANGED termVars
  /\ UNCHANGED posVars
  /\ UNCHANGED nameVars
  /\ UNCHANGED decVars
  /\ UNCHANGED riffVars
  /\ UNCHANGED rangeVars
  /\ UNCHANGED pairVars
  /\ UNCHANGED memoVars
  /\ UNCHANGED orderVars
  /\ UNCHANGED infoVars

\* quad(): const op = SF2.Generator.names.indexOf(k); if (op < 0) throw
LookUpName ==
  /\ gnpc = "yaml"
  /\ \E op \in {IndexOf(GeneratorNames, gname)} :
       gback' = IF op < 0 THEN [err |-> "Invalid generator: " \o gname]
                ELSE [err |-> "none", sfGenOper |-> op]
  /\ gnpc' = "quad"
  /\ UNCHANGED <<gop, gname>>
  /\ UNCHANGED quadVars
  /\ UNCHANGED gapVars
  /\ UNCHANGED bufVars
  /\ UNCHANGED zoneVars
  /\ UNCHANGED compVars
  /\ UNCHANGED refVars
  /\ UNCHANGED descVars
  /\ UNCHANGED termVars
  /\ UNCHANGED posVars
  /\ UNCHANGED nameVars
  /\ UNCHANGED decVars
  /\ UNCHANGED riffVars
  /\ UNCHANGED rangeVars
  /\ UNCHANGED pairVars
  /\ UNCHANGED memoVars
  /\ UNCHANGED orderVars
  /\ UNCHANGED infoVars

NextGenName == EmitName \/ LookUpName

SpecGenName == InitGenName /\ [][NextGenName]_vars

(***************************************************************************)
(* Claims about the generator names.                                       *)
(***************************************************************************)
\* C28: the name the decoder writes for an operator code, any unsigned 16
\* bit value, is accepted by quad() and gives the same code back.
C28_NameRoundTrip ==
  gnpc = "quad" => gback.err = "none" /\ gback.sfGenOper = gop

\* The 61 names of the table come back as their codes; the decimal name of
\* any other code is refused.
C28_TableNamesOnly ==
  gnpc = "quad" =>
    IF gop <= 60 THEN gback.err = "none" /\ gback.sfGenOper = gop
    ELSE gback.err = "Invalid generator: " \o ToString(gop)

(***************************************************************************)
(* SpecInfo: the INFO list of a binary, at most two sub-chunks with        *)
(* payloads of up to MaxInfoLen bytes (and two ifil versions of 4 bytes),  *)
(* is decoded by YamlGen.info() and encoded by YamlParse.riff_INFO().      *)
(* Strings are sequences of character codes.                               *)
(***************************************************************************)
MaxInfoLen == 3

\* A zero byte, a letter, and a byte that is not ASCII.
InfoBytes == {0, 65, 200}

InfoIds == {"ifil", "INAM"}

InfoChunks ==
  {[id |-> "ifil", data |-> d] : d \in {<<2, 0, 1, 0>>, <<1, 1, 4, 0>>}} \cup
  [id : InfoIds, data : SeqsUpTo(InfoBytes, MaxInfoLen)]

\* str.replace(/\0?\0$/, "") on a string that ends with a zero
StripZeros(str) ==
  IF Len(str) >= 2 /\ str[Len(str) - 1] = 0 THEN SubSeq(str, 1, Len(str) - 2)
  ELSE SubSeq(str, 1, Len(str) - 1)

\* A value that keeps the payload of every chunk as its string.
InfoValueRaw(c) == [kind |-> "str", str |-> c.data]

\* The value info() records for one sub-chunk.
InfoValue(c) ==
  IF c.id = "ifil" /\ Len(c.data) = 4
  THEN [ kind |-> "ifil", wMajor |-> c.data[1] + 256 * c.data[2],
         wMinor |-> c.data[3] + 256 * c.data[4] ]
  ELSE IF /\ Len(c.data) % 2 = 0
          /\ \A i \in DOMAIN c.data : c.data[i] < 128
          /\ Len(c.data) > 0 /\ c.data[Len(c.data)] = 0
  THEN [kind |-> "str", str |-> StripZeros(c.data)]
  ELSE [kind |-> "hex", hex |-> c.data]

\* info(): res[c.id] for the chunks in turn, a later chunk of an id
\* replacing the earlier one.
RECURSIVE Info(_, _, _)
Info(chunks, n, res) ==
  IF n > Len(chunks) THEN res
  ELSE Info(chunks, n + 1, (chunks[n].id :> InfoValue(chunks[n])) @@ res)

\* String(info[k]): the string itself, "[object Object]" for an object.
ObjectObject == <<91, 111, 98, 106, 101, 99, 116, 32, 79, 98, 106, 101, 99, 116, 93>>

StringOf(v) == IF v.kind = "str" THEN v.str ELSE ObjectObject

\* The payload riff_INFO() makes for key k: the two version numbers for
\* ifil (ifilOther when INFO.yml has no version numbers: zeros, or the
\* error of writeUInt16LE), else the string and one or two zero bytes.
InfoPayload(k, v, ifilOther) ==
  IF k = "ifil"
  THEN IF v.kind = "ifil"
       THEN <<v.wMajor % 256, v.wMajor \div 256, v.wMinor % 256, v.wMinor \div 256>>
       ELSE ifilOther
  ELSE LET s == StringOf(v)
       IN  s \o (IF Len(s) % 2 = 1 THEN <<0>> ELSE <<0, 0>>)

\* riff_INFO(keys): a sub-chunk per key that INFO.yml has.
RECURSIVE RiffInfo(_, _, _, _, _)
RiffInfo(keys, info, n, res, ifilOther) ==
  IF n > Len(keys) THEN [err |-> "none", chunks |-> res]
  ELSE IF keys[n] \notin DOMAIN info THEN RiffInfo(keys, info, n + 1, res, ifilOther)
  ELSE LET v == InfoPayload(keys[n], info[keys[n]], ifilOther)
       IN  IF v = <<"throw">> THEN [err |-> "ERR_INVALID_ARG_TYPE"]
           ELSE RiffInfo(keys, info, n + 1,
                         Append(res, [id |-> keys[n], data |-> v]), ifilOther)

InitInfo ==
  /\ QuadIdle /\ GapIdle /\ BufIdle /\ ZoneIdle /\ CompIdle /\ RefIdle
  /\ DescIdle /\ TermIdle /\ PosIdle /\ NameIdle /\ DecIdle /\ RiffIdle
  /\ RangeIdle /\ PairIdle /\ MemoIdle /\ OrderIdle /\ GenIdle
  /\ ichunks \in SeqsUpTo(InfoChunks, 2)
  /\ iyml = <<>>
  /\ ienc = <<>>
  /\ ipc = "sf2"

\* new YamlGen(sf2): riff() lists the ids of the INFO list in RIFF.yml and
\* info() writes INFO.yml.
DecodeInfo ==
  /\ ipc = "sf2"
  /\ iyml' = [ keys |-> [k \in DOMAIN ichunks |-> ichunks[k].id],
               info |-> Info(ichunks, 1, <<>>) ]
  /\ ipc' = "yaml"
  /\ UNCHANGED <<ichunks, ienc>>
  /\ UNCHANGED quadVars
  /\ UNCHANGED gapVars
  /\ UNCHANGED bufVars
  /\ UNCHANGED zoneVars
  /\ UNCHANGED compVars
  /\ UNCHANGED refVars
  /\ UNCHANGED descVars
  /\ UNCHANGED termVars
  /\ UNCHANGED posVars
  /\ UNCHANGED nameVars
  /\ UNCHANGED decVars
  /\ UNCHANGED riffVars
  /\ UNCHANGED rangeVars
  /\ UNCHANGED pairVars
  /\ UNCHANGED memoVars
  /\ UNCHANGED orderVars
  /\ UNCHANGED genVars

\* riff_INFO(keys) on the decoded files.  writeUInt16LE(undefined) throws
\* or writes zero, depending on the version of the runtime.
EncodeInfo ==
  /\ ipc = "yaml"
  /\ \E ifilOther \in {<<"throw">>, <<0, 0, 0, 0>>} :
       ienc' = RiffInfo(iyml.keys, iyml.info, 1, <<>>, ifilOther)
  /\ ipc' = "encoded"
  /\ UNCHANGED <<ichunks, iyml>>
  /\ UNCHANGED quadVars
  /\ UNCHANGED gapVars
  /\ UNCHANGED bufVars
  /\ UNCHANGED zoneVars
  /\ UNCHANGED compVars
  /\ UNCHANGED refVars
  /\ UNCHANGED descVars
  /\ UNCHANGED termVars
  /\ UNCHANGED posVars
  /\ UNCHANGED nameVars
  /\ UNCHANGED decVars
  /\ UNCHANGED riffVars
  /\ UNCHANGED rangeVars
  /\ UNCHANGED pairVars
  /\ UNCHANGED memoVars
  /\ UNCHANGED orderVars
  /\ UNCHANGED genVars

NextInfo == DecodeInfo \/ EncodeInfo

SpecInfo == InitInfo /\ [][NextInfo]_vars

(***************************************************************************)
(* Claims about the INFO list.                                             *)
(***************************************************************************)
\* C29: whatever the payloads of the sub-chunks of the INFO list (an ifil of
\* 4 bytes, an ASCII string of even length that ends with a zero byte, or
\* anything else, recorded as hex), riff_INFO() writes from INFO.yml the
\* original sub-chunks, byte for byte and in the original order.
C29_InfoRoundTrip ==
  ipc = "encoded" => ienc = [err |-> "none", chunks |-> ichunks]

\* The payloads that do come back: with different ids, each an ifil of 4
\* bytes or an ASCII string of even length that ends with a zero byte.
C29_TextAndVersionRoundTrip ==
  ( /\ ipc = "encoded"
    /\ \A j, k \in DOMAIN ichunks : j # k => ichunks[j].id # ichunks[k].id
    /\ \A k \in DOMAIN ichunks : iyml.info[ichunks[k].id].kind \in {"ifil", "str"}
    /\ \A k \in DOMAIN ichunks :
         ichunks[k].id = "ifil" => iyml.info["ifil"].kind = "ifil" )
  => ienc = [err |-> "none", chunks |-> ichunks]

====
